---- MODULE Spec2Model ----
(***************************************************************************)
(* CGradientBoostFastHistTreeBuilder<CGradientBoostStatisticsSingle>:      *)
(* histogram arena, histogram construction, split evaluation, in-place     *)
(* partition, depth-first expansion and pruning                            *)
(* (NeoML/src/TraditionalML/GradientBoostFastHistTreeBuilder.cpp).         *)
(*                                                                         *)
(* CArray contents are sequences; element i of the code is At(a, i).       *)
(* Statistics are exact integer triples, criteria are integers scaled by   *)
(* CritScale so that every division of the code is exact.                  *)
(***************************************************************************)
EXTENDS Integers, Sequences, FiniteSets, TLC

VARIABLES
    problem,        \* Build argument: the binned dataset (problem view)
    gradients,      \* Build argument
    hessians,       \* Build argument
    weights,        \* Build argument
    params,         \* builder member: CGradientBoostFastHistTreeBuilderParams
    histSize,       \* builder member
    nodes,          \* builder member: CArray<CNode>
    nodeStack,      \* builder member: the DFS stack
    vectorSet,      \* builder member: the vector-set permutation
    freeHists,      \* builder member: free histogram offsets
    histStats,      \* builder member: the histogram arena
    idPos,          \* builder member: bin id -> slot inside a histogram
    tempHistStats,  \* builder member: per-thread scratch histograms
    splitGainsByThreadBuffer, \* builder member: per-thread best gain
    splitIdsBuffer,           \* builder member: per-thread best bin id
    leftCandidates,           \* builder member: per-thread saved left statistics
    rightCandidates,          \* builder member: per-thread saved right statistics
    failed,         \* the NeoAssert of the builder that has failed, or NoAssert
    pc,             \* position of the driver thread inside Build
    builds,         \* number of Build calls started on this builder instance
    fr,             \* locals of the driver thread inside the running kernel
    omp             \* the running parallel region: workers' positions and accesses

vars == << problem, gradients, hessians, weights, params, histSize, nodes, nodeStack,
           vectorSet, freeHists, histStats, idPos, tempHistStats,
           splitGainsByThreadBuffer, splitIdsBuffer, leftCandidates, rightCandidates,
           failed, pc, builds, fr, omp >>

inputVars == << problem, gradients, hessians, weights, params >>

NotFound == -1
NoAssert == "none"

(***************************************************************************)
(* Bounds of the model.                                                    *)
(***************************************************************************)
MaxVectors == 3       \* datasets of 1..MaxVectors rows are enumerated exhaustively
BigVectors == 9       \* size of the patterned datasets (reaches the OpenMP path)
MaxDepthBound == 3    \* MaxTreeDepth ranges over 1..MaxDepthBound
MaxThreads == 2       \* ThreadCount ranges over 1..MaxThreads
MaxBuilds == 2        \* Build calls on one builder instance
MaxPruneValue == 3    \* thresholds 0..MaxPruneValue are compared on one expanded tree

(***************************************************************************)
(* CArray helpers.                                                         *)
(***************************************************************************)
At(a, i) == a[i + 1]
Upd(a, i, v) == [a EXCEPT ![i + 1] = v]
Size(a) == Len(a)
Last(a) == a[Len(a)]
DeleteLast(a) == SubSeq(a, 1, Len(a) - 1)
Fill(v, n) == [k \in 1..n |-> v]
Max(a, b) == IF a > b THEN a ELSE b
\* F(v), with v evaluated before F is applied: a statement that has completed before
\* the next one starts
Then(v, F(_)) == CHOOSE r \in { F(x) : x \in { v } } : TRUE

(***************************************************************************)
(* Statistics policy, Single variant (CGradientBoostStatisticsSingle).     *)
(***************************************************************************)
ZeroStat == [g |-> 0, h |-> 0, w |-> 0]
StatAdd(a, b) == [g |-> a.g + b.g, h |-> a.h + b.h, w |-> a.w + b.w]
StatSub(a, b) == [g |-> a.g - b.g, h |-> a.h - b.h, w |-> a.w - b.w]
\* T::Add( gradients, hessians, weights, vectorIndex )
StatAddVector(s, vectorIndex) ==
    [g |-> s.g + At(gradients, vectorIndex),
     h |-> s.h + At(hessians, vectorIndex),
     w |-> s.w + At(weights, vectorIndex)]
\* NullifyLeafClasses is empty in the Single variant
NullifyLeafClasses(s, saved) == s

RECURSIVE Gcd(_, _)
Gcd(a, b) == IF b = 0 THEN a ELSE Gcd(b, a % b)
RECURSIVE LcmUpTo(_)
LcmUpTo(n) == IF n <= 1 THEN 1 ELSE LET l == LcmUpTo(n - 1) IN (l * n) \div Gcd(l, n)
\* every hessian is 1, so a total hessian (plus L2) divides CritScale
CritScale == LcmUpTo(Max(MaxVectors, BigVectors) + 2)

\* T::CalcCriterion( l1, l2 ): soft-thresholded gradient squared over hessian + l2
CalcCriterion(s, l1, l2) ==
    LET temp == IF s.g > l1 THEN s.g - l1 ELSE IF s.g < -l1 THEN s.g + l1 ELSE 0
    IN  IF s.h + l2 = 0 THEN 0 ELSE (CritScale * temp * temp) \div (s.h + l2)

\* static T::CalcCriterion( criterion, left, right, total, l1, l2, minHess, minWeight, dense )
CalcSplitCriterion(left, right, total, p) ==
    IF \/ left.h < p.MinSubsetHessian \/ right.h < p.MinSubsetHessian
       \/ left.w < p.MinSubsetWeight \/ right.w < p.MinSubsetWeight
    THEN [ok |-> FALSE, criterion |-> 0]
    ELSE [ok |-> TRUE,
          criterion |-> CalcCriterion(left, p.L1RegFactor, p.L2RegFactor)
                        + CalcCriterion(right, p.L1RegFactor, p.L2RegFactor)]

(***************************************************************************)
(* The builder as a record, for the kernels written as functions of it.    *)
(***************************************************************************)
B == [params |-> params, histSize |-> histSize, nodes |-> nodes, nodeStack |-> nodeStack,
      vectorSet |-> vectorSet, freeHists |-> freeHists, histStats |-> histStats,
      idPos |-> idPos, tempHistStats |-> tempHistStats,
      splitGainsByThreadBuffer |-> splitGainsByThreadBuffer,
      splitIdsBuffer |-> splitIdsBuffer, leftCandidates |-> leftCandidates,
      rightCandidates |-> rightCandidates, failed |-> failed]

Install(b) ==
    /\ params' = b.params
    /\ histSize' = b.histSize
    /\ nodes' = b.nodes
    /\ nodeStack' = b.nodeStack
    /\ vectorSet' = b.vectorSet
    /\ freeHists' = b.freeHists
    /\ histStats' = b.histStats
    /\ idPos' = b.idPos
    /\ tempHistStats' = b.tempHistStats
    /\ splitGainsByThreadBuffer' = b.splitGainsByThreadBuffer
    /\ splitIdsBuffer' = b.splitIdsBuffer
    /\ leftCandidates' = b.leftCandidates
    /\ rightCandidates' = b.rightCandidates
    /\ failed' = b.failed

\* a builder right after its constructor
NewBuilder(p) ==
    [params |-> p, histSize |-> NotFound, nodes |-> << >>, nodeStack |-> << >>,
     vectorSet |-> << >>, freeHists |-> << >>, histStats |-> << >>, idPos |-> << >>,
     tempHistStats |-> << >>, splitGainsByThreadBuffer |-> << >>,
     splitIdsBuffer |-> << >>, leftCandidates |-> << >>, rightCandidates |-> << >>,
     failed |-> NoAssert]

CNode(level, vectorSetPtr, vectorSetSize) ==
    [Level |-> level, VectorSetPtr |-> vectorSetPtr, VectorSetSize |-> vectorSetSize,
     HistPtr |-> NotFound, Statistics |-> ZeroStat, SplitFeatureId |-> NotFound,
     Left |-> NotFound, Right |-> NotFound,
     LeftStatistics |-> ZeroStat, RightStatistics |-> ZeroStat]

(***************************************************************************)
(* Initialization of a Build.                                              *)
(***************************************************************************)
initVectorSet(size) == [k \in 1..size |-> k - 1]

RECURSIVE initIdPos(_, _, _)
initIdPos(i, idp, hs) ==
    IF i >= Size(problem.usedFeatures) THEN [idPos |-> idp, histSize |-> hs]
    ELSE LET featureIndex == At(problem.usedFeatures, i)
             first == At(problem.featurePos, featureIndex)
             last == At(problem.featurePos, featureIndex + 1)
         IN  initIdPos(i + 1,
                       [k \in 1..Len(idp) |->
                           IF first <= k - 1 /\ k - 1 < last THEN hs + (k - 1 - first)
                           ELSE idp[k]],
                       hs + (last - first))

\* mutant: one slot too few
initFreeHistsShort(maxTreeDepth, hs) == [k \in 1..maxTreeDepth |-> (k - 1) * hs]

initFreeHists(maxTreeDepth, hs) == [k \in 1..(maxTreeDepth + 1) |-> (k - 1) * hs]

initHistData(b) ==
    LET r == initIdPos(0, Fill(NotFound, Last(problem.featurePos)), 0)
    IN  [b EXCEPT !.idPos = r.idPos,
                  !.histSize = r.histSize,
                  !.histStats = b.histStats
                                \o Fill(ZeroStat, r.histSize * (b.params.MaxTreeDepth + 1)),
                  !.freeHists = initFreeHists(b.params.MaxTreeDepth, r.histSize)]

(***************************************************************************)
(* Histogram arena.                                                        *)
(***************************************************************************)
\* NeoAssert( !freeHists.IsEmpty() ): ok is FALSE when the assertion fails
\* mutant: the offset handed out stays in the free list
allocHistKeeping(b) ==
    IF Size(b.freeHists) = 0
    THEN [ok |-> FALSE, result |-> NotFound, b |-> [b EXCEPT !.failed = "allocHist"]]
    ELSE [ok |-> TRUE, result |-> Last(b.freeHists), b |-> b]

allocHist(b) ==
    IF Size(b.freeHists) = 0
    THEN [ok |-> FALSE, result |-> NotFound, b |-> [b EXCEPT !.failed = "allocHist"]]
    ELSE [ok |-> TRUE, result |-> Last(b.freeHists),
          b |-> [b EXCEPT !.freeHists = DeleteLast(b.freeHists)]]

\* mutant: the slot is not returned
freeHistDropped(b, ptr) == b

freeHist(b, ptr) == [b EXCEPT !.freeHists = Append(b.freeHists, ptr)]

RECURSIVE subHistFrom(_, _, _, _, _)
subHistFrom(hs, firstPtr, secondPtr, i, n) ==
    IF i >= n THEN hs
    ELSE Then(Upd(hs, firstPtr + i, StatSub(At(hs, firstPtr + i), At(hs, secondPtr + i))),
              LAMBDA s : subHistFrom(s, firstPtr, secondPtr, i + 1, n))

\* mutant: the last bin is not subtracted
subHistShort(b, firstPtr, secondPtr) ==
    [b EXCEPT !.histStats = subHistFrom(b.histStats, firstPtr, secondPtr, 0, b.histSize - 1)]

subHist(b, firstPtr, secondPtr) ==
    [b EXCEPT !.histStats = subHistFrom(b.histStats, firstPtr, secondPtr, 0, b.histSize)]

(***************************************************************************)
(* buildHist.                                                              *)
(***************************************************************************)
OmpFactor == 4

eraseHist(hs, ptr, n) ==
    [k \in 1..Len(hs) |-> IF ptr < k /\ k <= ptr + n THEN ZeroStat ELSE hs[k]]

RECURSIVE addVectorToHistFrom(_, _, _, _, _, _)
addVectorToHistFrom(idp, data, stats, base, vectorIndex, i) ==
    IF i >= Size(data) THEN stats
    ELSE LET id == At(idp, At(data, i))
         IN  Then(IF id # NotFound
                  THEN Upd(stats, base + id, StatAddVector(At(stats, base + id), vectorIndex))
                  ELSE stats,
                  LAMBDA s : addVectorToHistFrom(idp, data, s, base, vectorIndex, i + 1))

\* stats is the array the code's pointer points into, base the pointer's offset
addVectorToHist(b, stats, base, vectorIndex) ==
    addVectorToHistFrom(b.idPos, At(problem.vectorData, vectorIndex), stats, base,
                        vectorIndex, 0)

\* mutant: every worker is handed the first scratch histogram
threadHistShared(b, threadNumber) == 0

\* tempHistStats.GetPtr() + histSize * threadNumber: the worker's scratch histogram
threadHist(b, threadNumber) == b.histSize * threadNumber

\* one iteration of a worker's while loop in the first parallel region;
\* acc = [temp: tempHistStats, results: the per-thread totals]
buildHistWorker(b, node, acc, threadNumber, i) ==
    LET vectorIndex == At(b.vectorSet, node.VectorSetPtr + i)
    IN  [temp |-> addVectorToHist(b, acc.temp, threadHist(b, threadNumber), vectorIndex),
         results |-> Upd(acc.results, threadNumber,
                         StatAddVector(At(acc.results, threadNumber), vectorIndex))]

RECURSIVE buildHistThread(_, _, _, _, _)
buildHistThread(b, node, acc, threadNumber, i) ==
    IF i >= node.VectorSetSize THEN acc
    ELSE Then(buildHistWorker(b, node, acc, threadNumber, i),
              LAMBDA a : buildHistThread(b, node, a, threadNumber, i + b.params.ThreadCount))

RECURSIVE buildHistThreads(_, _, _, _)
buildHistThreads(b, node, acc, threadNumber) ==
    IF threadNumber >= b.params.ThreadCount THEN acc
    ELSE Then(buildHistThread(b, node, acc, threadNumber, threadNumber),
              LAMBDA a : buildHistThreads(b, node, a, threadNumber + 1))

RECURSIVE mergeResults(_, _, _)
mergeResults(totalStats, results, i) ==
    IF i >= Size(results) THEN totalStats
    ELSE Then(StatAdd(totalStats, At(results, i)),
              LAMBDA s : mergeResults(s, results, i + 1))

RECURSIVE reduceBinFrom(_, _, _, _, _, _)
reduceBinFrom(b, hs, ptr, temp, i, j) ==
    IF j >= b.params.ThreadCount THEN hs
    ELSE Then(Upd(hs, ptr + i, StatAdd(At(hs, ptr + i), At(temp, j * b.histSize + i))),
              LAMBDA s : reduceBinFrom(b, s, ptr, temp, i, j + 1))

\* mutant: only the first thread's scratch histogram is merged
reduceBinFirstThread(b, hs, ptr, temp, i) ==
    Upd(hs, ptr + i, StatAdd(At(hs, ptr + i), At(temp, i)))

\* iteration i of the per-bin reduction loop
reduceBin(b, hs, ptr, temp, i) == reduceBinFrom(b, hs, ptr, temp, i, 0)

RECURSIVE reduceBins(_, _, _, _, _)
reduceBins(b, hs, ptr, temp, i) ==
    IF i >= b.histSize THEN hs
    ELSE Then(reduceBin(b, hs, ptr, temp, i),
              LAMBDA s : reduceBins(b, s, ptr, temp, i + 1))

RECURSIVE buildHistSeq(_, _, _, _)
buildHistSeq(b, node, r, i) ==
    IF i >= node.VectorSetSize THEN r
    ELSE LET vectorIndex == At(b.vectorSet, node.VectorSetPtr + i)
         IN  Then([hs |-> addVectorToHist(b, r.hs, node.HistPtr, vectorIndex),
                   total |-> StatAddVector(r.total, vectorIndex)],
                  LAMBDA a : buildHistSeq(b, node, a, i + 1))

RECURSIVE nullStatisticsFrom(_, _, _, _, _, _)
nullStatisticsFrom(b, hs, ptr, s, j, last) ==
    IF j >= last THEN s
    ELSE Then(StatSub(s, At(hs, ptr + At(b.idPos, j))),
              LAMBDA a : nullStatisticsFrom(b, hs, ptr, a, j + 1, last))

\* mutant: the null bin is left as the main accumulation filled it
addNullValuesSkipped(b, hs, ptr, totalStats, i) == hs

\* mutant: the null bin itself is not subtracted from totalStats
addNullValuesKeepingNullBin(b, hs, ptr, totalStats, i) ==
    LET f == At(problem.usedFeatures, i)
        nullFeatureId == At(problem.featureNullValueId, f)
        nullStatistics == nullStatisticsFrom(b, hs, ptr, totalStats,
                              At(problem.featurePos, f), At(problem.featurePos, f + 1))
        slot == ptr + At(b.idPos, nullFeatureId)
    IN  Upd(hs, slot, StatAdd(At(hs, slot), StatAdd(nullStatistics, At(hs, slot))))

\* iteration i of the "adding zero values" loop
addNullValues(b, hs, ptr, totalStats, i) ==
    LET f == At(problem.usedFeatures, i)
        nullFeatureId == At(problem.featureNullValueId, f)
        nullStatistics == nullStatisticsFrom(b, hs, ptr, totalStats,
                              At(problem.featurePos, f), At(problem.featurePos, f + 1))
        slot == ptr + At(b.idPos, nullFeatureId)
    IN  Upd(hs, slot, StatAdd(At(hs, slot), nullStatistics))

RECURSIVE addNullValuesAll(_, _, _, _, _)
addNullValuesAll(b, hs, ptr, totalStats, i) ==
    IF i >= Size(problem.usedFeatures) THEN hs
    ELSE Then(addNullValues(b, hs, ptr, totalStats, i),
              LAMBDA s : addNullValuesAll(b, s, ptr, totalStats, i + 1))

isOmp(b, node) == node.VectorSetSize > OmpFactor * b.params.ThreadCount

\* the scratch of the parallel path before its first region
initAcc(b) ==
    [temp |-> Fill(ZeroStat, b.params.ThreadCount * b.histSize),
     results |-> Fill(ZeroStat, b.params.ThreadCount)]

\* returns the builder (histStats, tempHistStats changed) and totalStats
buildHist(b, node) ==
    LET hs0 == eraseHist(b.histStats, node.HistPtr, b.histSize)
    IN  IF isOmp(b, node)
        THEN Then(buildHistThreads(b, node, initAcc(b), 0), LAMBDA acc :
             Then(mergeResults(ZeroStat, acc.results, 0), LAMBDA total :
             Then(reduceBins(b, hs0, node.HistPtr, acc.temp, 0), LAMBDA hs1 :
                 [b |-> [b EXCEPT !.histStats =
                                      addNullValuesAll(b, hs1, node.HistPtr, total, 0),
                                  !.tempHistStats = acc.temp],
                  totalStats |-> total])))
        ELSE Then(buildHistSeq(b, node, [hs |-> hs0, total |-> ZeroStat], 0), LAMBDA seq :
                 [b |-> [b EXCEPT !.histStats =
                                      addNullValuesAll(b, seq.hs, node.HistPtr, seq.total, 0)],
                  totalStats |-> seq.total])

(***************************************************************************)
(* evaluateSplit.                                                          *)
(***************************************************************************)
\* mutant: every thread keeps its best split in element 0
threadSlotShared(threadNumber) == 0

\* the element of splitGainsByThread, splitIds, leftCandidates and rightCandidates
\* that a thread uses
threadSlot(threadNumber) == threadNumber

\* the inner loop over the bins j of one feature, run by thread threadNumber;
\* sc = [gains, ids, lefts, rights]: the per-thread search results
RECURSIVE scanBins(_, _, _, _, _, _, _)
scanBins(b, node, sc, threadNumber, left, j, lastFeatureIndex) ==
    IF j >= lastFeatureIndex THEN sc
    ELSE LET featureStats == At(b.histStats, node.HistPtr + At(b.idPos, j))
             left2 == StatAdd(left, featureStats)
             right == StatSub(node.Statistics, left2)
             c == CalcSplitCriterion(left2, right, node.Statistics, b.params)
             sc2 == IF c.ok /\ At(sc.gains, threadSlot(threadNumber)) < c.criterion
                    THEN [gains |-> Upd(sc.gains, threadSlot(threadNumber), c.criterion),
                          ids |-> Upd(sc.ids, threadSlot(threadNumber), j),
                          lefts |-> Upd(sc.lefts, threadSlot(threadNumber), left2),
                          rights |-> Upd(sc.rights, threadSlot(threadNumber), right)]
                    ELSE sc
         IN  Then(sc2, LAMBDA s :
                  Then(left2, LAMBDA l :
                      scanBins(b, node, s, threadNumber, l, j + 1, lastFeatureIndex)))

\* iteration i of a worker's loop over the used features
scanFeature(b, node, sc, threadNumber, i) ==
    LET f == At(problem.usedFeatures, i)
    IN  scanBins(b, node, sc, threadNumber, ZeroStat,
                 At(problem.featurePos, f), At(problem.featurePos, f + 1))

RECURSIVE scanThread(_, _, _, _, _)
scanThread(b, node, sc, threadNumber, i) ==
    IF i >= Size(problem.usedFeatures) THEN sc
    ELSE Then(scanFeature(b, node, sc, threadNumber, i),
              LAMBDA s : scanThread(b, node, s, threadNumber, i + b.params.ThreadCount))

RECURSIVE scanThreads(_, _, _, _)
scanThreads(b, node, sc, threadNumber) ==
    IF threadNumber >= b.params.ThreadCount THEN sc
    ELSE Then(scanThread(b, node, sc, threadNumber, threadNumber),
              LAMBDA s : scanThreads(b, node, s, threadNumber + 1))

\* the search results before the parallel region
initScan(b, node) ==
    LET T == b.params.ThreadCount
    IN  [gains |-> Fill(CalcCriterion(node.Statistics, b.params.L1RegFactor,
                                      b.params.L2RegFactor), T),
         ids |-> Fill(NotFound, T),
         lefts |-> IF Size(b.leftCandidates) = 0 THEN Fill(ZeroStat, T)
                   ELSE b.leftCandidates,
         rights |-> IF Size(b.leftCandidates) = 0 THEN Fill(ZeroStat, T)
                    ELSE b.rightCandidates]

\* mutant: a thread's result replaces the current one only when its gain is larger
betterWithoutTieBreak(r, threadBestGain, threadBestFeature) ==
    r.bestValue < threadBestGain

\* bestValue < threadBestGain || ( bestValue == threadBestGain && threadBestFeature < result )
better(r, threadBestGain, threadBestFeature) ==
    \/ r.bestValue < threadBestGain
    \/ (r.bestValue = threadBestGain /\ threadBestFeature < r.result)

\* "choose the best result over all threads";
\* r = [bestValue, result, LeftStatistics, RightStatistics]
RECURSIVE chooseBest(_, _, _)
chooseBest(sc, r, i) ==
    IF i >= Size(sc.gains) THEN r
    ELSE LET threadBestGain == At(sc.gains, i)
             threadBestFeature == At(sc.ids, i)
         IN  Then(IF better(r, threadBestGain, threadBestFeature)
                  THEN [bestValue |-> threadBestGain, result |-> threadBestFeature,
                        LeftStatistics |-> At(sc.lefts, i),
                        RightStatistics |-> At(sc.rights, i)]
                  ELSE r,
                  LAMBDA s : chooseBest(sc, s, i + 1))

\* mutant: the node limit is tested for one new node instead of two
limitReachedOffByOne(b, node) ==
    \/ (b.params.MaxNodesCount # NotFound /\ Size(b.nodes) + 1 > b.params.MaxNodesCount)
    \/ node.Level >= b.params.MaxTreeDepth

limitReached(b, node) ==
    \/ (b.params.MaxNodesCount # NotFound /\ Size(b.nodes) + 2 > b.params.MaxNodesCount)
    \/ node.Level >= b.params.MaxTreeDepth

\* mutant: the statistics of the chosen candidate are saved on the opposite sides
finishEvaluateSwapped(b, nodeIndex, sc) ==
    LET node == At(b.nodes, nodeIndex)
    IN  Then(chooseBest(sc,
                 [bestValue |-> CalcCriterion(node.Statistics, b.params.L1RegFactor,
                                              b.params.L2RegFactor),
                  result |-> NotFound,
                  LeftStatistics |-> node.LeftStatistics,
                  RightStatistics |-> node.RightStatistics], 0),
             LAMBDA r :
                 [result |-> r.result,
                  b |-> [b EXCEPT !.splitGainsByThreadBuffer = sc.gains,
                                  !.splitIdsBuffer = sc.ids,
                                  !.leftCandidates = sc.lefts,
                                  !.rightCandidates = sc.rights,
                                  !.nodes = Upd(b.nodes, nodeIndex,
                                                [node EXCEPT
                                                    !.LeftStatistics = r.RightStatistics,
                                                    !.RightStatistics = r.LeftStatistics])]])

\* the part of evaluateSplit after the parallel region, given its results sc
finishEvaluate(b, nodeIndex, sc) ==
    LET node == At(b.nodes, nodeIndex)
    IN  Then(chooseBest(sc,
                 [bestValue |-> CalcCriterion(node.Statistics, b.params.L1RegFactor,
                                              b.params.L2RegFactor),
                  result |-> NotFound,
                  LeftStatistics |-> node.LeftStatistics,
                  RightStatistics |-> node.RightStatistics], 0),
             LAMBDA r :
                 [result |-> r.result,
                  b |-> [b EXCEPT !.splitGainsByThreadBuffer = sc.gains,
                                  !.splitIdsBuffer = sc.ids,
                                  !.leftCandidates = sc.lefts,
                                  !.rightCandidates = sc.rights,
                                  !.nodes = Upd(b.nodes, nodeIndex,
                                                [node EXCEPT
                                                    !.LeftStatistics = r.LeftStatistics,
                                                    !.RightStatistics = r.RightStatistics])]])

\* returns the bin id (or NotFound) and the builder
evaluateSplit(b, nodeIndex) ==
    LET node == At(b.nodes, nodeIndex)
    IN  IF limitReached(b, node) THEN [result |-> NotFound, b |-> b]
        ELSE Then(initScan(b, node), LAMBDA sc0 :
             Then(scanThreads(b, node, sc0, 0), LAMBDA sc : finishEvaluate(b, nodeIndex, sc)))

(***************************************************************************)
(* applySplit.                                                             *)
(***************************************************************************)
\* FObj FindInsertionPoint with Ascending<int>: binary search for the first
\* position whose element is greater than the searched one
RECURSIVE FindInsertionPointFrom(_, _, _, _)
FindInsertionPointFrom(element, array, first, last) ==
    IF first >= last THEN first
    ELSE LET mid == (first + last) \div 2
         IN  IF element < At(array, mid)
             THEN FindInsertionPointFrom(element, array, first, mid)
             ELSE FindInsertionPointFrom(element, array, mid + 1, last)

FindInsertionPoint(element, array) == FindInsertionPointFrom(element, array, 0, Size(array))

\* mutant: a vector that lists no bin of the split feature gets no null bin id
vectorFeatureIdWithoutNull(node, vectorIndex) ==
    LET featureIndex == At(problem.featureIndexes, node.SplitFeatureId)
        nextId == At(problem.featurePos, featureIndex + 1) - 1
        vectorData == At(problem.vectorData, vectorIndex)
        pos == FindInsertionPoint(nextId, vectorData)
    IN  IF pos = 0 \/ At(problem.featureIndexes, At(vectorData, pos - 1)) # featureIndex
        THEN NotFound
        ELSE At(vectorData, pos - 1)

\* the bin id of the split feature that decides the side of vector vectorIndex
vectorFeatureId(node, vectorIndex) ==
    LET featureIndex == At(problem.featureIndexes, node.SplitFeatureId)
        nextId == At(problem.featurePos, featureIndex + 1) - 1
        vectorData == At(problem.vectorData, vectorIndex)
        pos == FindInsertionPoint(nextId, vectorData)
    IN  IF pos = 0 \/ At(problem.featureIndexes, At(vectorData, pos - 1)) # featureIndex
        THEN At(problem.featureNullValueId, featureIndex)
        ELSE At(vectorData, pos - 1)

\* mutant: the mark is the plain negation, which leaves index 0 unmarked
markVectorPlainNegation(node, vs, i) ==
    LET cell == node.VectorSetPtr + i
    IN  IF vectorFeatureId(node, At(vs, cell)) <= node.SplitFeatureId
        THEN Upd(vs, cell, -At(vs, cell))
        ELSE vs

\* mutant: a vector whose bin id equals the split bin id goes right
markVectorStrict(node, vs, i) ==
    LET cell == node.VectorSetPtr + i
    IN  IF vectorFeatureId(node, At(vs, cell)) < node.SplitFeatureId
        THEN Upd(vs, cell, -(At(vs, cell) + 1))
        ELSE vs

\* one iteration of a worker's while loop: marks element i of the node's range
markVector(node, vs, i) ==
    LET cell == node.VectorSetPtr + i
    IN  IF vectorFeatureId(node, At(vs, cell)) <= node.SplitFeatureId
        THEN Upd(vs, cell, -(At(vs, cell) + 1))
        ELSE vs

RECURSIVE markThread(_, _, _, _)
markThread(node, vs, i, T) ==
    IF i >= node.VectorSetSize THEN vs
    ELSE Then(markVector(node, vs, i), LAMBDA s : markThread(node, s, i + T, T))

RECURSIVE markThreads(_, _, _, _)
markThreads(node, vs, threadNumber, T) ==
    IF threadNumber >= T THEN vs
    ELSE Then(markThread(node, vs, threadNumber, T),
              LAMBDA s : markThreads(node, s, threadNumber + 1, T))

\* mutant: an unmarked cell at rightIndex does not move rightIndex
sweepStepKeepingRight(vs, vectorPtr, leftIndex, rightIndex) ==
    IF At(vs, vectorPtr + leftIndex) < 0
    THEN [vs |-> Upd(vs, vectorPtr + leftIndex, -At(vs, vectorPtr + leftIndex) - 1),
          leftIndex |-> leftIndex + 1, rightIndex |-> rightIndex]
    ELSE IF At(vs, vectorPtr + rightIndex) >= 0
         THEN [vs |-> vs, leftIndex |-> leftIndex, rightIndex |-> rightIndex]
         ELSE [vs |-> Upd(Upd(vs, vectorPtr + leftIndex, At(vs, vectorPtr + rightIndex)),
                          vectorPtr + rightIndex, At(vs, vectorPtr + leftIndex)),
               leftIndex |-> leftIndex, rightIndex |-> rightIndex]

\* one iteration of the loop "reordering the vectors of the node"
sweepStep(vs, vectorPtr, leftIndex, rightIndex) ==
    IF At(vs, vectorPtr + leftIndex) < 0
    THEN [vs |-> Upd(vs, vectorPtr + leftIndex, -At(vs, vectorPtr + leftIndex) - 1),
          leftIndex |-> leftIndex + 1, rightIndex |-> rightIndex]
    ELSE IF At(vs, vectorPtr + rightIndex) >= 0
         THEN [vs |-> vs, leftIndex |-> leftIndex, rightIndex |-> rightIndex - 1]
         ELSE [vs |-> Upd(Upd(vs, vectorPtr + leftIndex, At(vs, vectorPtr + rightIndex)),
                          vectorPtr + rightIndex, At(vs, vectorPtr + leftIndex)),
               leftIndex |-> leftIndex, rightIndex |-> rightIndex]

\* the cells of vectorSet that iteration reads
sweepReads(vs, vectorPtr, leftIndex, rightIndex) ==
    IF At(vs, vectorPtr + leftIndex) < 0 THEN { vectorPtr + leftIndex }
    ELSE { vectorPtr + leftIndex, vectorPtr + rightIndex }

\* "reordering the vectors of the node": the two-pointer sweep
RECURSIVE reorder(_, _, _, _)
reorder(vs, vectorPtr, leftIndex, rightIndex) ==
    IF leftIndex > rightIndex THEN [vs |-> vs, leftIndex |-> leftIndex]
    ELSE LET s == sweepStep(vs, vectorPtr, leftIndex, rightIndex)
         IN  reorder(s.vs, vectorPtr, s.leftIndex, s.rightIndex)

\* the end of applySplit, given the outcome r of the sweep: the two assertions and
\* "creating the child nodes"
createChildren(b, nodeIndex, r) ==
    LET node == At(b.nodes, nodeIndex)
        vectorPtr == node.VectorSetPtr
        vectorCount == node.VectorSetSize
    IN  IF ~(r.leftIndex > 0 /\ vectorCount - r.leftIndex > 0)
        THEN [ok |-> FALSE, leftNode |-> NotFound, rightNode |-> NotFound,
              b |-> [b EXCEPT !.vectorSet = r.vs, !.failed = "applySplit"]]
        ELSE [ok |-> TRUE, leftNode |-> Size(b.nodes), rightNode |-> Size(b.nodes) + 1,
              b |-> [b EXCEPT !.vectorSet = r.vs,
                              !.nodes = b.nodes
                                  \o << CNode(node.Level + 1, vectorPtr, r.leftIndex),
                                        CNode(node.Level + 1, vectorPtr + r.leftIndex,
                                              vectorCount - r.leftIndex) >>]]

\* the part of applySplit after the parallel region, given the marked vectorSet
finishApply(b, nodeIndex, marked) ==
    createChildren(b, nodeIndex,
                   reorder(marked, At(b.nodes, nodeIndex).VectorSetPtr, 0,
                           At(b.nodes, nodeIndex).VectorSetSize - 1))

applySplit(b, nodeIndex) ==
    finishApply(b, nodeIndex,
                markThreads(At(b.nodes, nodeIndex), b.vectorSet, 0, b.params.ThreadCount))

(***************************************************************************)
(* Build.                                                                  *)
(***************************************************************************)
\* "Initialization": initVectorSet and initHistData
beginBuild(b) ==
    initHistData([b EXCEPT !.vectorSet = initVectorSet(Size(problem.vectorData))])

\* the root before its histogram is built
newRoot(b, histPtr) == [CNode(0, 0, Size(b.vectorSet)) EXCEPT !.HistPtr = histPtr]

\* nodes.Empty(); nodes.Add( root ); nodeStack.Empty(); nodeStack.Add( 0 )
addRoot(b, root, totalStats) ==
    [b EXCEPT !.nodes = << [root EXCEPT !.Statistics = totalStats] >>,
              !.nodeStack = << 0 >>]

\* Build up to the first test of the expansion loop
startBuild(b) ==
    Then(allocHist(beginBuild(b)), LAMBDA a :
        IF ~a.ok THEN a.b
        ELSE Then(buildHist(a.b, newRoot(a.b, a.result)), LAMBDA h :
                 addRoot(h.b, newRoot(a.b, a.result), h.totalStats)))

\* mutant: the right child is pushed but not recorded in the node
linkChildrenLeftOnly(b, node, leftNode, rightNode) ==
    [b EXCEPT !.nodes = Upd(@, node, [At(@, node) EXCEPT !.Left = leftNode]),
              !.nodeStack = @ \o << leftNode, rightNode >>]

\* nodes[node].Left = leftNode; nodeStack.Add( leftNode ); the same for the right
linkChildren(b, node, leftNode, rightNode) ==
    [b EXCEPT !.nodes = Upd(@, node, [At(@, node) EXCEPT !.Left = leftNode,
                                                        !.Right = rightNode]),
              !.nodeStack = @ \o << leftNode, rightNode >>]

\* mutant: the histogram of the larger child is built
builtChildLarger(b, leftNode, rightNode) ==
    IF At(b.nodes, leftNode).VectorSetSize < At(b.nodes, rightNode).VectorSetSize
    THEN rightNode ELSE leftNode

\* mutant: on a tie the histogram of the left child is built
builtChildLeftOnTie(b, leftNode, rightNode) ==
    IF At(b.nodes, leftNode).VectorSetSize <= At(b.nodes, rightNode).VectorSetSize
    THEN leftNode ELSE rightNode

\* the child that gets a freshly built histogram: the smaller one, the right one on a tie
builtChild(b, leftNode, rightNode) ==
    IF At(b.nodes, leftNode).VectorSetSize < At(b.nodes, rightNode).VectorSetSize
    THEN leftNode ELSE rightNode

\* nodes[built].HistPtr = allocHist()
attachHist(b, built) ==
    LET a == allocHist(b)
    IN  IF ~a.ok THEN a.b
        ELSE [a.b EXCEPT !.nodes = Upd(@, built, [At(@, built) EXCEPT !.HistPtr = a.result])]

\* mutant: the other child keeps the parent's statistics (Sub is missing)
finishChildrenNoSub(b, node, built, other, totalStats) ==
    LET b2 == [b EXCEPT !.nodes = Upd(@, built, [At(@, built) EXCEPT !.Statistics = totalStats])]
        b3 == subHist(b2, At(b2.nodes, node).HistPtr, At(b2.nodes, built).HistPtr)
        parent == At(b3.nodes, node)
        leftNode == parent.Left
        rightNode == parent.Right
        b4 == [b3 EXCEPT !.nodes = Upd(@, other,
                  [At(@, other) EXCEPT !.HistPtr = parent.HistPtr,
                                       !.Statistics = parent.Statistics])]
    IN  [b4 EXCEPT !.nodes =
            Upd(Upd(@, leftNode,
                    [At(@, leftNode) EXCEPT !.Statistics =
                        NullifyLeafClasses(@, parent.LeftStatistics)]),
                rightNode,
                [At(@, rightNode) EXCEPT !.Statistics =
                    NullifyLeafClasses(@, parent.RightStatistics)])]

\* after buildHist on the child built: its statistics, subHist, the other child takes
\* the parent's slot and the parent's statistics minus the built child's, and
\* NullifyLeafClasses on both children
finishChildren(b, node, built, other, totalStats) ==
    LET b2 == [b EXCEPT !.nodes = Upd(@, built, [At(@, built) EXCEPT !.Statistics = totalStats])]
        b3 == subHist(b2, At(b2.nodes, node).HistPtr, At(b2.nodes, built).HistPtr)
        parent == At(b3.nodes, node)
        leftNode == parent.Left
        rightNode == parent.Right
        b4 == [b3 EXCEPT !.nodes = Upd(@, other,
                  [At(@, other) EXCEPT
                      !.HistPtr = parent.HistPtr,
                      !.Statistics = StatSub(parent.Statistics, At(b3.nodes, built).Statistics)])]
    IN  [b4 EXCEPT !.nodes =
            Upd(Upd(@, leftNode,
                    [At(@, leftNode) EXCEPT !.Statistics =
                        NullifyLeafClasses(@, parent.LeftStatistics)]),
                rightNode,
                [At(@, rightNode) EXCEPT !.Statistics =
                    NullifyLeafClasses(@, parent.RightStatistics)])]

otherChild(built, leftNode, rightNode) == IF built = leftNode THEN rightNode ELSE leftNode

\* the branch "the split is possible" of the loop body after applySplit has returned s
afterApply(s, node) ==
    IF ~s.ok THEN s.b
    ELSE Then(linkChildren(s.b, node, s.leftNode, s.rightNode), LAMBDA b1 :
         Then(builtChild(b1, s.leftNode, s.rightNode), LAMBDA built :
         Then(attachHist(b1, built), LAMBDA b2 :
             IF b2.failed # NoAssert THEN b2
             ELSE Then(buildHist(b2, At(b2.nodes, built)), LAMBDA h :
                      finishChildren(h.b, node, built,
                                     otherChild(built, s.leftNode, s.rightNode),
                                     h.totalStats)))))

\* the branch "the split is possible" of the loop body
splitNode(b, node) == Then(applySplit(b, node), LAMBDA s : afterApply(s, node))

\* mutant: the histogram of a leaf is not released
makeLeafNoFree(b, node) ==
    [b EXCEPT !.nodes = Upd(@, node, [At(@, node) EXCEPT !.HistPtr = NotFound])]

\* the branch "the node could not be split" of the loop body
makeLeaf(b, node) ==
    LET b1 == freeHist(b, At(b.nodes, node).HistPtr)
    IN  [b1 EXCEPT !.nodes = Upd(@, node, [At(@, node) EXCEPT !.HistPtr = NotFound])]

\* nodeStack.Last(); nodeStack.DeleteLast()
popNode(b) == [b EXCEPT !.nodeStack = DeleteLast(@)]

\* nodes[node].SplitFeatureId = the result of evaluateSplit
setSplit(b, node, result) ==
    [b EXCEPT !.nodes = Upd(@, node, [At(@, node) EXCEPT !.SplitFeatureId = result])]

\* one iteration of the while loop of Build
expandNode(b) ==
    LET node == Last(b.nodeStack)
    IN  Then(evaluateSplit(popNode(b), node), LAMBDA e :
        Then(setSplit(e.b, node, e.result), LAMBDA b2 :
            IF e.result # NotFound THEN splitNode(b2, node) ELSE makeLeaf(b2, node)))

\* splitCriterion - oneNodeCriterion of a node whose children are leaves
criterionDifference(b, node) ==
    LET n == At(b.nodes, node)
        p == b.params
        oneNodeCriterion == CalcCriterion(n.Statistics, p.L1RegFactor, p.L2RegFactor)
        splitCriterion ==
            CalcCriterion(At(b.nodes, n.Left).Statistics, p.L1RegFactor, p.L2RegFactor)
            + CalcCriterion(At(b.nodes, n.Right).Statistics, p.L1RegFactor, p.L2RegFactor)
    IN  splitCriterion - oneNodeCriterion

\* mutant: the comparison with PruneCriterionValue is reversed
shouldMergeReversed(b, node) ==
    criterionDifference(b, node) > b.params.PruneCriterionValue * CritScale

\* splitCriterion - oneNodeCriterion < params.PruneCriterionValue
shouldMerge(b, node) ==
    criterionDifference(b, node) < b.params.PruneCriterionValue * CritScale

\* mutant: the merged node keeps its split bin id
mergeKeepingSplitId(b, node) ==
    [b EXCEPT !.nodes = Upd(@, node, [At(b.nodes, node) EXCEPT !.Left = NotFound,
                                                             !.Right = NotFound])]

\* the node becomes a leaf
merge(b, node) ==
    [b EXCEPT !.nodes = Upd(@, node, [At(b.nodes, node) EXCEPT !.Left = NotFound,
                                                             !.Right = NotFound,
                                                             !.SplitFeatureId = NotFound])]

RECURSIVE prune(_, _)
prune(b, node) ==
    LET n == At(b.nodes, node)
    IN  IF n.Left = NotFound THEN [result |-> TRUE, b |-> b]
        ELSE Then(prune(b, n.Left), LAMBDA l :
                 IF ~l.result THEN [result |-> FALSE, b |-> l.b]
                 ELSE Then(prune(l.b, n.Right), LAMBDA r :
                          IF ~r.result THEN [result |-> FALSE, b |-> r.b]
                          ELSE IF shouldMerge(r.b, node)
                               THEN [result |-> TRUE, b |-> merge(r.b, node)]
                               ELSE [result |-> FALSE, b |-> r.b]))

\* "Pruning"
pruneTree(b) == IF b.params.PruneCriterionValue # 0 THEN prune(b, 0).b ELSE b

\* the expansion loop run to its end
RECURSIVE expandAll(_)
expandAll(b) ==
    IF b.failed # NoAssert \/ Size(b.nodeStack) = 0 THEN b
    ELSE Then(expandNode(b), LAMBDA b2 : expandAll(b2))

(***************************************************************************)
(* Inputs of Build. Three features: feature 0 owns the bin ids 0..2 with   *)
(* null bin 1, feature 1 owns the bin ids 3..4 with null bin 3, feature 2   *)
(* owns the bin ids 5..6 with null bin 5.                                   *)
(***************************************************************************)
FeaturePos == << 0, 3, 5, 7 >>
FeatureNullValueId == << 1, 3, 5 >>
FeatureIndexes == << 0, 0, 0, 1, 1, 2, 2 >>
UsedFeatureSets == { << 0, 1 >>, << 0 >>, << 1 >> }

\* sparse rows: at most one bin id per feature, ascending; the null bin is not listed
RowTypes == { << >>, << 0 >>, << 2 >>, << 4 >>, << 0, 4 >>, << 2, 4 >> }
\* the rows the patterned datasets cycle through; the last two list a null bin
RowCycle == << << 0 >>, << 2, 4 >>, << >>, << 4 >>, << 0, 4 >>, << 2 >>, << 1, 4 >>, << 2, 3 >> >>
GradientValues == { -1, 1 }

Problem(vectorData, usedFeatures) ==
    [vectorData |-> vectorData, usedFeatures |-> usedFeatures, featurePos |-> FeaturePos,
     featureNullValueId |-> FeatureNullValueId, featureIndexes |-> FeatureIndexes]

Params(threadCount, maxTreeDepth, maxNodesCount, minSubsetHessian, pruneCriterionValue) ==
    [L1RegFactor |-> 0, L2RegFactor |-> 0, MinSubsetHessian |-> minSubsetHessian,
     ThreadCount |-> threadCount, MaxTreeDepth |-> maxTreeDepth,
     PruneCriterionValue |-> pruneCriterionValue, MaxNodesCount |-> maxNodesCount,
     MinSubsetWeight |-> 0]

\* every dataset of 1..MaxVectors rows, up to the sign of the gradients (the criterion
\* is even in the gradient sum, so negating every gradient builds the mirrored tree)
SmallInputs ==
    { [problem |-> Problem(d, << 0, 1 >>), gradients |-> g,
       params |-> Params(MaxThreads, MaxDepthBound - 1, NotFound, 1, 1)] :
        d \in UNION { [1..n -> RowTypes] : n \in 1..MaxVectors },
        g \in UNION { { f \in [1..n -> GradientValues] : f[1] = 1 } : n \in 1..MaxVectors } }

\* row i lists RowCycle[(a*i + c) mod |RowCycle|]; gradients change sign every q rows
PatternData(a, c) ==
    [k \in 1..BigVectors |-> RowCycle[((a * (k - 1) + c) % Len(RowCycle)) + 1]]
PatternGradients(q) ==
    [k \in 1..BigVectors |-> IF ((k - 1) \div q) % 2 = 0 THEN 1 ELSE -1]

BigInputs ==
    { [problem |-> Problem(PatternData(x[1], x[2]), u), gradients |-> PatternGradients(x[3]),
       params |-> Params(t, d, mn, mh, pr)] :
        x \in {1, 3} \X {0, 3} \X {1, 2, 3},
        u \in UsedFeatureSets,
        t \in 1..MaxThreads,
        d \in 1..MaxDepthBound,
        mn \in {NotFound, 4, 5},
        mh \in {1, 2},
        pr \in {0, 1} }

\* datasets in which the features 1 and 2 separate the rows in the same way, so that
\* their best candidates have equal criteria; the gradient follows that separation
\* (s = 1) or changes sign every s rows
TieCycle == << << 0, 4, 6 >>, << 2 >>, << 4, 6 >>, << >>, << 0 >>, << 2, 4, 6 >> >>
TieData == [k \in 1..BigVectors |-> TieCycle[((k - 1) % Len(TieCycle)) + 1]]
TieGradients(s) ==
    [k \in 1..BigVectors |->
        IF s = 1 THEN (IF 4 \in { TieData[k][j] : j \in 1..Len(TieData[k]) } THEN 1 ELSE -1)
        ELSE PatternGradients(s)[k]]

TieInputs ==
    { [problem |-> Problem(TieData, u), gradients |-> TieGradients(s),
       params |-> Params(t, d, NotFound, 1, 1)] :
        u \in { << 0, 1, 2 >>, << 1, 2 >>, << 0, 2 >> },
        s \in {1, 2, 3},
        t \in 1..MaxThreads,
        d \in 1..MaxDepthBound }

Inputs ==
    { x \in SmallInputs : Len(x.problem.vectorData) = Len(x.gradients) }
        \cup BigInputs \cup TieInputs

(***************************************************************************)
(* The driver thread, with every kernel run as one step.                   *)
(***************************************************************************)
\* the driver's locals: the node popped (NotFound while the root is built), the two
\* children, the node buildHist runs on, the per-thread totals and totalStats
NoFrame == [node |-> NotFound, built |-> NotFound, other |-> NotFound,
            hnode |-> CNode(0, 0, 0), results |-> << >>, totalStats |-> ZeroStat]
\* a parallel region: its iteration count, each worker's loop variable (regions that
\* stride by thread number), the iterations not yet handed out (omp for regions) and
\* the memory cells each worker has read and written since the region began
NoRegion == [n |-> 0, wi |-> << >>, pending |-> {}, reads |-> << >>, writes |-> << >>]

Init ==
    /\ \E x \in Inputs :
          /\ problem = x.problem
          /\ gradients = x.gradients
          /\ hessians = Fill(1, Len(x.gradients))
          /\ weights = Fill(1, Len(x.gradients))
          /\ params = x.params
    /\ histSize = NotFound
    /\ nodes = << >>
    /\ nodeStack = << >>
    /\ vectorSet = << >>
    /\ freeHists = << >>
    /\ histStats = << >>
    /\ idPos = << >>
    /\ tempHistStats = << >>
    /\ splitGainsByThreadBuffer = << >>
    /\ splitIdsBuffer = << >>
    /\ leftCandidates = << >>
    /\ rightCandidates = << >>
    /\ failed = NoAssert
    /\ pc = "idle"
    /\ builds = 0
    /\ fr = NoFrame
    /\ omp = NoRegion

Goto(b, next) == pc' = IF b.failed # NoAssert THEN "aborted" ELSE next

\* Build up to the first test of the expansion loop
StartBuild ==
    /\ pc = "idle"
    /\ builds = 0
    /\ \E b \in { startBuild(B) } : Install(b) /\ Goto(b, "loop")
    /\ builds' = builds + 1
    /\ UNCHANGED << problem, gradients, hessians, weights, fr, omp >>

\* one iteration of the expansion loop
ExpandNode ==
    /\ pc = "loop"
    /\ Size(nodeStack) > 0
    /\ LET b == expandNode(B) IN Install(b) /\ Goto(b, "loop")
    /\ UNCHANGED << problem, gradients, hessians, weights, builds, fr, omp >>

\* the end of Build: pruning
FinishBuild ==
    /\ pc = "loop"
    /\ Size(nodeStack) = 0
    /\ \E b \in { pruneTree(B) } : Install(b) /\ Goto(b, "done")
    /\ UNCHANGED << problem, gradients, hessians, weights, builds, fr, omp >>

Next == StartBuild \/ ExpandNode \/ FinishBuild

Spec == Init /\ [][Next]_vars

(***************************************************************************)
(* The driver thread and the workers of the parallel regions, one loop      *)
(* iteration of one worker per step. A region that strides by thread number *)
(* gives worker t the iterations t, t + ThreadCount, ...; an omp for region *)
(* gives any remaining iteration to any worker. Each region ends with a     *)
(* barrier.                                                                 *)
(***************************************************************************)
ParInputs ==
    { [problem |-> Problem(PatternData(1, x[1]), u), gradients |-> PatternGradients(x[2]),
       params |-> Params(t, MaxDepthBound - 1, NotFound, 1, 1)] :
        x \in {0, 3} \X {2, 3},
        u \in UsedFeatureSets,
        t \in 1..MaxThreads }

InitPar ==
    /\ \E x \in ParInputs :
          /\ problem = x.problem
          /\ gradients = x.gradients
          /\ hessians = Fill(1, Len(x.gradients))
          /\ weights = Fill(1, Len(x.gradients))
          /\ params = x.params
    /\ histSize = NotFound
    /\ nodes = << >>
    /\ nodeStack = << >>
    /\ vectorSet = << >>
    /\ freeHists = << >>
    /\ histStats = << >>
    /\ idPos = << >>
    /\ tempHistStats = << >>
    /\ splitGainsByThreadBuffer = << >>
    /\ splitIdsBuffer = << >>
    /\ leftCandidates = << >>
    /\ rightCandidates = << >>
    /\ failed = NoAssert
    /\ pc = "idle"
    /\ builds = 0
    /\ fr = NoFrame
    /\ omp = NoRegion

Workers == 0..(params.ThreadCount - 1)

\* int i = threadNumber; while( i < n ) { ...; i += params.ThreadCount; }
StartRegion(n) ==
    [n |-> n, wi |-> [k \in 1..params.ThreadCount |-> k - 1], pending |-> {},
     reads |-> Fill({}, params.ThreadCount), writes |-> Fill({}, params.ThreadCount)]

\* omp parallel for over 0..n-1
StartFor(n) ==
    [n |-> n, wi |-> Fill(n, params.ThreadCount), pending |-> 0..(n - 1),
     reads |-> Fill({}, params.ThreadCount), writes |-> Fill({}, params.ThreadCount)]

RegionOf(next, b, hnode) ==
    IF next = "acc" THEN StartRegion(hnode.VectorSetSize)
    ELSE IF next = "red" THEN StartFor(b.histSize)
    ELSE IF next = "null" THEN StartFor(Size(problem.usedFeatures))
    ELSE IF next = "scan" THEN StartRegion(Size(problem.usedFeatures))
    ELSE IF next = "mark" THEN StartRegion(hnode.VectorSetSize)
    ELSE NoRegion

RegionDone == omp.pending = {} /\ \A t \in Workers : At(omp.wi, t) >= omp.n
CanStep(t) == At(omp.wi, t) < omp.n

\* worker t has run one iteration of its strided loop with the accesses a = [r, w]
Advance(t, a) ==
    omp' = [omp EXCEPT !.wi = Upd(@, t, At(@, t) + params.ThreadCount),
                       !.reads = Upd(@, t, At(@, t) \cup a.r),
                       !.writes = Upd(@, t, At(@, t) \cup a.w)]

\* worker t has run iteration i of an omp for loop with the accesses a = [r, w]
AdvanceFor(t, i, a) ==
    omp' = [omp EXCEPT !.pending = @ \ {i},
                       !.reads = Upd(@, t, At(@, t) \cup a.r),
                       !.writes = Upd(@, t, At(@, t) \cup a.w)]

\* the cells one iteration of the first region of buildHist reads and writes
buildHistWorkerAccess(b, node, threadNumber, i) ==
    LET data == At(problem.vectorData, At(b.vectorSet, node.VectorSetPtr + i))
        slots == { << "tempHistStats", threadHist(b, threadNumber) + At(b.idPos, data[k]) >> :
                     k \in { j \in 1..Len(data) : At(b.idPos, data[j]) # NotFound } }
    IN  [r |-> { << "vectorSet", node.VectorSetPtr + i >> }
               \cup { << "idPos", data[k] >> : k \in 1..Len(data) }
               \cup slots \cup { << "results", threadNumber >> },
         w |-> slots \cup { << "results", threadNumber >> }]

\* the cells iteration i of the per-bin reduction reads and writes
reduceBinAccess(b, ptr, i) ==
    [r |-> { << "tempHistStats", j * b.histSize + i >> : j \in 0..(b.params.ThreadCount - 1) }
           \cup { << "histStats", ptr + i >> },
     w |-> { << "histStats", ptr + i >> }]

\* the cells iteration i of the "adding zero values" loop reads and writes
addNullValuesAccess(b, ptr, i) ==
    LET f == At(problem.usedFeatures, i)
        nullSlot == << "histStats", ptr + At(b.idPos, At(problem.featureNullValueId, f)) >>
    IN  [r |-> { << "histStats", ptr + At(b.idPos, j) >> :
                   j \in At(problem.featurePos, f)..(At(problem.featurePos, f + 1) - 1) }
               \cup { << "idPos", j >> :
                        j \in At(problem.featurePos, f)..(At(problem.featurePos, f + 1) - 1) }
               \cup { nullSlot, << "totalStats", 0 >> },
         w |-> { nullSlot }]

\* the cells one iteration of the feature loop of evaluateSplit reads and writes;
\* the thread's results are written when the iteration has improved them
scanFeatureAccess(b, node, sc, threadNumber, i) ==
    LET f == At(problem.usedFeatures, i)
        own == { << "splitGainsByThread", threadSlot(threadNumber) >>,
                 << "splitIds", threadSlot(threadNumber) >>,
                 << "leftCandidates", threadSlot(threadNumber) >>,
                 << "rightCandidates", threadSlot(threadNumber) >> }
    IN  [r |-> { << "histStats", node.HistPtr + At(b.idPos, j) >> :
                   j \in At(problem.featurePos, f)..(At(problem.featurePos, f + 1) - 1) }
               \cup { << "idPos", j >> :
                        j \in At(problem.featurePos, f)..(At(problem.featurePos, f + 1) - 1) }
               \cup { << "splitGainsByThread", threadSlot(threadNumber) >> },
         w |-> IF scanFeature(b, node, sc, threadNumber, i) # sc THEN own ELSE {}]

\* the cells one iteration of the marking loop of applySplit reads and writes
markVectorAccess(node, vs, i) ==
    [r |-> { << "vectorSet", node.VectorSetPtr + i >> },
     w |-> IF markVector(node, vs, i) # vs THEN { << "vectorSet", node.VectorSetPtr + i >> }
           ELSE {}]

\* buildHist up to its first parallel region: the sequential path runs here whole
enterBuildHist(b, hnode) ==
    LET hs0 == eraseHist(b.histStats, hnode.HistPtr, b.histSize)
        seq == buildHistSeq(b, hnode, [hs |-> hs0, total |-> ZeroStat], 0)
    IN  IF isOmp(b, hnode)
        THEN [b |-> [b EXCEPT !.histStats = hs0, !.tempHistStats = initAcc(b).temp],
              results |-> initAcc(b).results, totalStats |-> ZeroStat, next |-> "acc"]
        ELSE [b |-> [b EXCEPT !.histStats = seq.hs],
              results |-> << >>, totalStats |-> seq.total, next |-> "null"]

CurrentScan == [gains |-> splitGainsByThreadBuffer, ids |-> splitIdsBuffer,
                lefts |-> leftCandidates, rights |-> rightCandidates]

inputsUnchanged == UNCHANGED << problem, gradients, hessians, weights >>

\* a Build call (the first or a later one on the same builder) up to the first
\* parallel region of buildHist on the root
ParStartBuild ==
    /\ pc \in {"idle", "done"}
    /\ builds < MaxBuilds
    /\ builds' = builds + 1
    /\ inputsUnchanged
    /\ LET a == allocHist(beginBuild(B))
           root == newRoot(a.b, a.result)
           e == enterBuildHist(a.b, root)
       IN  IF ~a.ok
           THEN Install(a.b) /\ pc' = "aborted" /\ fr' = NoFrame /\ omp' = NoRegion
           ELSE /\ Install(e.b)
                /\ pc' = e.next
                /\ fr' = [NoFrame EXCEPT !.hnode = root, !.results = e.results,
                                         !.totalStats = e.totalStats]
                /\ omp' = RegionOf(e.next, e.b, root)

\* buildHist, first region: worker t adds one vector to its scratch histogram
AccStep ==
    /\ pc = "acc"
    /\ \E t \in Workers :
          /\ CanStep(t)
          /\ LET i == At(omp.wi, t)
                 a == buildHistWorker(B, fr.hnode,
                          [temp |-> tempHistStats, results |-> fr.results], t, i)
             IN  /\ tempHistStats' = a.temp
                 /\ fr' = [fr EXCEPT !.results = a.results]
                 /\ Advance(t, buildHistWorkerAccess(B, fr.hnode, t, i))
    /\ UNCHANGED << problem, gradients, hessians, weights, params, histSize, nodes,
                    nodeStack, vectorSet, freeHists, histStats, idPos,
                    splitGainsByThreadBuffer, splitIdsBuffer, leftCandidates,
                    rightCandidates, failed, pc, builds >>

\* buildHist: the barrier of the first region and the merge of the threads' totals
AccEnd ==
    /\ pc = "acc"
    /\ RegionDone
    /\ fr' = [fr EXCEPT !.totalStats = mergeResults(ZeroStat, fr.results, 0)]
    /\ pc' = "red"
    /\ omp' = RegionOf("red", B, fr.hnode)
    /\ UNCHANGED << problem, gradients, hessians, weights, params, histSize, nodes,
                    nodeStack, vectorSet, freeHists, histStats, idPos, tempHistStats,
                    splitGainsByThreadBuffer, splitIdsBuffer, leftCandidates,
                    rightCandidates, failed, builds >>

\* buildHist, per-bin reduction: worker t merges the scratch histograms into one bin
RedStep ==
    /\ pc = "red"
    /\ \E t \in Workers, i \in omp.pending :
          /\ histStats' = reduceBin(B, histStats, fr.hnode.HistPtr, tempHistStats, i)
          /\ AdvanceFor(t, i, reduceBinAccess(B, fr.hnode.HistPtr, i))
    /\ UNCHANGED << problem, gradients, hessians, weights, params, histSize, nodes,
                    nodeStack, vectorSet, freeHists, idPos, tempHistStats,
                    splitGainsByThreadBuffer, splitIdsBuffer, leftCandidates,
                    rightCandidates, failed, pc, builds, fr >>

\* buildHist: the barrier of the per-bin reduction
RedEnd ==
    /\ pc = "red"
    /\ RegionDone
    /\ pc' = "null"
    /\ omp' = RegionOf("null", B, fr.hnode)
    /\ UNCHANGED << problem, gradients, hessians, weights, params, histSize, nodes,
                    nodeStack, vectorSet, freeHists, histStats, idPos, tempHistStats,
                    splitGainsByThreadBuffer, splitIdsBuffer, leftCandidates,
                    rightCandidates, failed, builds, fr >>

\* buildHist, "adding zero values": worker t folds the null statistics of one feature
NullStep ==
    /\ pc = "null"
    /\ \E t \in Workers, i \in omp.pending :
          /\ histStats' = addNullValues(B, histStats, fr.hnode.HistPtr, fr.totalStats, i)
          /\ AdvanceFor(t, i, addNullValuesAccess(B, fr.hnode.HistPtr, i))
    /\ UNCHANGED << problem, gradients, hessians, weights, params, histSize, nodes,
                    nodeStack, vectorSet, freeHists, idPos, tempHistStats,
                    splitGainsByThreadBuffer, splitIdsBuffer, leftCandidates,
                    rightCandidates, failed, pc, builds, fr >>

\* buildHist returns: the root is added, or the children of a split are completed
NullEnd ==
    /\ pc = "null"
    /\ RegionDone
    /\ LET b == IF fr.node = NotFound THEN addRoot(B, fr.hnode, fr.totalStats)
                ELSE finishChildren(B, fr.node, fr.built, fr.other, fr.totalStats)
       IN  Install(b) /\ Goto(b, "loop")
    /\ fr' = NoFrame
    /\ omp' = NoRegion
    /\ UNCHANGED << problem, gradients, hessians, weights, builds >>

\* the loop pops a node; evaluateSplit up to its parallel region
ParPop ==
    /\ pc = "loop"
    /\ Size(nodeStack) > 0
    /\ LET node == Last(nodeStack)
           b1 == popNode(B)
           sc == initScan(b1, At(b1.nodes, node))
       IN  IF limitReached(b1, At(b1.nodes, node))
           THEN /\ Install(makeLeaf(setSplit(b1, node, NotFound), node))
                /\ pc' = "loop"
                /\ fr' = NoFrame
                /\ omp' = NoRegion
           ELSE /\ Install([b1 EXCEPT !.splitGainsByThreadBuffer = sc.gains,
                                      !.splitIdsBuffer = sc.ids,
                                      !.leftCandidates = sc.lefts,
                                      !.rightCandidates = sc.rights])
                /\ pc' = "scan"
                /\ fr' = [NoFrame EXCEPT !.node = node]
                /\ omp' = RegionOf("scan", b1, At(b1.nodes, node))
    /\ UNCHANGED << problem, gradients, hessians, weights, builds >>

\* evaluateSplit: worker t scans the bins of one feature
ScanStep ==
    /\ pc = "scan"
    /\ \E t \in Workers :
          /\ CanStep(t)
          /\ LET i == At(omp.wi, t)
                 sc == scanFeature(B, At(nodes, fr.node), CurrentScan, t, i)
             IN  /\ splitGainsByThreadBuffer' = sc.gains
                 /\ splitIdsBuffer' = sc.ids
                 /\ leftCandidates' = sc.lefts
                 /\ rightCandidates' = sc.rights
                 /\ Advance(t, scanFeatureAccess(B, At(nodes, fr.node), CurrentScan, t, i))
    /\ UNCHANGED << problem, gradients, hessians, weights, params, histSize, nodes,
                    nodeStack, vectorSet, freeHists, histStats, idPos, tempHistStats,
                    failed, pc, builds, fr >>

\* evaluateSplit after its barrier; then the leaf branch, or applySplit up to its region
ScanEnd ==
    /\ pc = "scan"
    /\ RegionDone
    /\ LET e == finishEvaluate(B, fr.node, CurrentScan)
           b2 == setSplit(e.b, fr.node, e.result)
       IN  IF e.result = NotFound
           THEN /\ Install(makeLeaf(b2, fr.node))
                /\ pc' = "loop"
                /\ fr' = NoFrame
                /\ omp' = NoRegion
           ELSE /\ Install(b2)
                /\ pc' = "mark"
                /\ fr' = fr
                /\ omp' = RegionOf("mark", b2, At(b2.nodes, fr.node))
    /\ UNCHANGED << problem, gradients, hessians, weights, builds >>

\* applySplit: worker t marks one vector of the node's range
MarkStep ==
    /\ pc = "mark"
    /\ \E t \in Workers :
          /\ CanStep(t)
          /\ LET i == At(omp.wi, t)
             IN  /\ vectorSet' = markVector(At(nodes, fr.node), vectorSet, i)
                 /\ Advance(t, markVectorAccess(At(nodes, fr.node), vectorSet, i))
    /\ UNCHANGED << problem, gradients, hessians, weights, params, histSize, nodes,
                    nodeStack, freeHists, histStats, idPos, tempHistStats,
                    splitGainsByThreadBuffer, splitIdsBuffer, leftCandidates,
                    rightCandidates, failed, pc, builds, fr >>

\* applySplit after its barrier, the children are linked and pushed, a histogram is
\* allocated for the smaller child; buildHist on it up to its first region
MarkEnd ==
    /\ pc = "mark"
    /\ RegionDone
    /\ LET s == finishApply(B, fr.node, vectorSet)
           b1 == linkChildren(s.b, fr.node, s.leftNode, s.rightNode)
           built == builtChild(b1, s.leftNode, s.rightNode)
           b2 == attachHist(b1, built)
           e == enterBuildHist(b2, At(b2.nodes, built))
       IN  IF ~s.ok
           THEN Install(s.b) /\ pc' = "aborted" /\ fr' = NoFrame /\ omp' = NoRegion
           ELSE IF b2.failed # NoAssert
           THEN Install(b2) /\ pc' = "aborted" /\ fr' = NoFrame /\ omp' = NoRegion
           ELSE /\ Install(e.b)
                /\ pc' = e.next
                /\ fr' = [node |-> fr.node, built |-> built,
                          other |-> otherChild(built, s.leftNode, s.rightNode),
                          hnode |-> At(b2.nodes, built), results |-> e.results,
                          totalStats |-> e.totalStats]
                /\ omp' = RegionOf(e.next, e.b, At(b2.nodes, built))
    /\ UNCHANGED << problem, gradients, hessians, weights, builds >>

NextPar ==
    \/ ParStartBuild \/ AccStep \/ AccEnd \/ RedStep \/ RedEnd \/ NullStep \/ NullEnd
    \/ ParPop \/ ScanStep \/ ScanEnd \/ MarkStep \/ MarkEnd \/ FinishBuild

SpecPar == InitPar /\ [][NextPar]_vars

(***************************************************************************)
(* The driver thread with the sweep of applySplit run one loop iteration   *)
(* per step. A behaviour is either a Build call, or the sweep on its own   *)
(* over a range of vectorSet with any of its cells marked. The driver      *)
(* thread is never suspended for ever: weak fairness of its next step.     *)
(***************************************************************************)
SweepCells == 4       \* the sweep on its own runs inside a vectorSet of SweepCells cells

LiveInputs ==
    { x \in BigInputs : /\ x.params.MaxNodesCount = NotFound
                        /\ x.params.MinSubsetHessian = 1
                        /\ x.params.PruneCriterionValue = 1 }
        \cup TieInputs

\* the locals of applySplit during the sweep, and the cells of vectorSet read so far
SweepFrame(node, vectorPtr, vectorCount) ==
    [node |-> node, vectorPtr |-> vectorPtr, vectorCount |-> vectorCount,
     leftIndex |-> 0, rightIndex |-> vectorCount - 1, reads |-> {}]

\* the sweep on its own: the cells vectorPtr .. vectorPtr + vectorCount - 1 of a
\* vectorSet, some of them marked as applySplit marks a cell (x becomes -(x + 1))
SweepInputs ==
    { [vectorSet |-> [k \in 1..SweepCells |-> IF k \in m THEN -k ELSE k - 1],
       vectorPtr |-> p, vectorCount |-> c] :
        p \in 0..(SweepCells - 1), c \in 1..SweepCells, m \in SUBSET (1..SweepCells) }

InitLive ==
    \/ /\ Init
       /\ \E x \in LiveInputs :
             problem = x.problem /\ gradients = x.gradients /\ params = x.params
    \/ /\ \E x \in { y \in SweepInputs :
                        /\ y.vectorPtr + y.vectorCount <= SweepCells
                        /\ \A k \in 1..SweepCells :
                              y.vectorSet[k] < 0 =>
                                  k - 1 \in y.vectorPtr..(y.vectorPtr + y.vectorCount - 1) } :
             /\ vectorSet = x.vectorSet
             /\ fr = SweepFrame(NotFound, x.vectorPtr, x.vectorCount)
       /\ \E x \in { y \in TieInputs : y.params.ThreadCount = 1 /\ y.params.MaxTreeDepth = 1 } :
             /\ problem = x.problem
             /\ gradients = x.gradients
             /\ hessians = Fill(1, Len(x.gradients))
             /\ weights = Fill(1, Len(x.gradients))
             /\ params = x.params
       /\ histSize = NotFound
       /\ nodes = << >>
       /\ nodeStack = << >>
       /\ freeHists = << >>
       /\ histStats = << >>
       /\ idPos = << >>
       /\ tempHistStats = << >>
       /\ splitGainsByThreadBuffer = << >>
       /\ splitIdsBuffer = << >>
       /\ leftCandidates = << >>
       /\ rightCandidates = << >>
       /\ failed = NoAssert
       /\ pc = "sweep"
       /\ builds = 0
       /\ omp = NoRegion

\* one iteration of the expansion loop up to the sweep of applySplit
LivePop ==
    /\ pc = "loop"
    /\ Size(nodeStack) > 0
    /\ \E node \in { Last(nodeStack) } :
       \E e \in { evaluateSplit(popNode(B), node) } :
       \E b2 \in { setSplit(e.b, node, e.result) } :
       \E n \in { At(b2.nodes, node) } :
          IF e.result = NotFound
          THEN \E b \in { makeLeaf(b2, node) } :
                  Install(b) /\ Goto(b, "loop") /\ fr' = NoFrame
          ELSE \E b \in { [b2 EXCEPT !.vectorSet =
                             markThreads(n, b2.vectorSet, 0, b2.params.ThreadCount)] } :
                  /\ Install(b)
                  /\ pc' = "sweep"
                  /\ fr' = SweepFrame(node, n.VectorSetPtr, n.VectorSetSize)
    /\ UNCHANGED << problem, gradients, hessians, weights, builds, omp >>

\* one iteration of the sweep
SweepStep ==
    /\ pc = "sweep"
    /\ fr.leftIndex <= fr.rightIndex
    /\ \E s \in { sweepStep(vectorSet, fr.vectorPtr, fr.leftIndex, fr.rightIndex) } :
           /\ vectorSet' = s.vs
           /\ fr' = [fr EXCEPT !.leftIndex = s.leftIndex, !.rightIndex = s.rightIndex,
                               !.reads = @ \cup sweepReads(vectorSet, fr.vectorPtr,
                                                           fr.leftIndex, fr.rightIndex)]
    /\ UNCHANGED << problem, gradients, hessians, weights, params, histSize, nodes,
                    nodeStack, freeHists, histStats, idPos, tempHistStats,
                    splitGainsByThreadBuffer, splitIdsBuffer, leftCandidates,
                    rightCandidates, failed, pc, builds, omp >>

\* the sweep has ended: the rest of applySplit and of the loop body
SweepEnd ==
    /\ pc = "sweep"
    /\ fr.leftIndex > fr.rightIndex
    /\ IF fr.node = NotFound
       THEN /\ pc' = "swept"
            /\ UNCHANGED << params, histSize, nodes, nodeStack, vectorSet, freeHists,
                            histStats, idPos, tempHistStats, splitGainsByThreadBuffer,
                            splitIdsBuffer, leftCandidates, rightCandidates, failed, fr >>
       ELSE \E s \in { createChildren(B, fr.node,
                                      [vs |-> vectorSet, leftIndex |-> fr.leftIndex]) } :
            \E b \in { afterApply(s, fr.node) } :
               Install(b) /\ Goto(b, "loop") /\ fr' = NoFrame
    /\ UNCHANGED << problem, gradients, hessians, weights, builds, omp >>

NextLive == StartBuild \/ LivePop \/ SweepStep \/ SweepEnd \/ FinishBuild

SpecLive == InitLive /\ [][NextLive]_vars /\ WF_vars(NextLive)

(***************************************************************************)
(* Properties.                                                             *)
(***************************************************************************)
Range(a) == { a[k] : k \in 1..Len(a) }
NoDuplicates(a) == Cardinality(Range(a)) = Len(a)
\* the initial set of arena offsets
ArenaOffsets == { i * histSize : i \in 0..params.MaxTreeDepth }
\* Build is past initHistData and the creation of the root
InBuild == pc \in {"loop", "done"}
NodeIds == 0..(Size(nodes) - 1)
\* the offsets recorded in HistPtr fields, node by node
HeldBy(ids) == [k \in 1..Len(ids) |-> At(nodes, ids[k]).HistPtr]
AllNodeIds == [k \in 1..Size(nodes) |-> k - 1]
HoldingNodeIds == SelectSeq(AllNodeIds, LAMBDA n : At(nodes, n).HistPtr # NotFound)
IsSplit(n) == At(nodes, n).Left # NotFound
ParentOf(n) == CHOOSE q \in NodeIds : At(nodes, q).Left = n \/ At(nodes, q).Right = n
HasParent(n) == \E q \in NodeIds : At(nodes, q).Left = n \/ At(nodes, q).Right = n

\* C1: allocHist never finds the free list empty, and the nodes awaiting expansion
\* never hold more than MaxTreeDepth+1 histogram slots.
C1_AllocHistNeverFails ==
    /\ failed # "allocHist"
    /\ InBuild => /\ Size(nodeStack) <= params.MaxTreeDepth + 1
                  /\ Cardinality(Range(HeldBy(nodeStack))) <= params.MaxTreeDepth + 1

\* every slot of a depth >= 2 arena is held by a node awaiting expansion
C1_Witness ==
    /\ pc = "loop"
    /\ params.MaxTreeDepth >= 2
    /\ Size(freeHists) = 0
    /\ Size(nodeStack) = params.MaxTreeDepth + 1

\* C2 as claimed: the HistPtr fields of all nodes together with freeHists hold every
\* arena offset exactly once.
C2_AllNodesAndFreeListPartitionArena ==
    InBuild => LET all == HeldBy(HoldingNodeIds) \o freeHists
               IN  Range(all) = ArenaOffsets /\ NoDuplicates(all)

\* C2 amended: the HistPtr fields of the nodes awaiting expansion on nodeStack together
\* with freeHists hold every arena offset exactly once; a node that was split keeps in
\* HistPtr the offset of the slot it handed over to a child, a leaf holds NotFound.
C2_StackAndFreeListPartitionArena ==
    InBuild => LET all == HeldBy(nodeStack) \o freeHists
               IN  /\ Range(all) = ArenaOffsets
                   /\ NoDuplicates(all)
                   /\ \A n \in NodeIds \ Range(nodeStack) :
                         IF At(nodes, n).SplitFeatureId = NotFound /\ pc = "loop"
                         THEN At(nodes, n).HistPtr = NotFound
                         ELSE At(nodes, n).HistPtr \in ArenaOffsets \cup {NotFound}

\* nodes wait on the stack, one of them in the slot a split node still names, while
\* another split node names a slot that is back in the free list
C2_Witness ==
    /\ pc = "loop"
    /\ Size(nodeStack) >= 2
    /\ \E n \in NodeIds : IsSplit(n) /\ At(nodes, n).HistPtr \in Range(HeldBy(nodeStack))
    /\ \E n \in NodeIds : IsSplit(n) /\ At(nodes, n).HistPtr \in Range(freeHists)

\* C3: when the expansion has finished, freeHists holds the MaxTreeDepth+1 initial
\* offsets, each once.
C3_AllSlotsReturned ==
    (InBuild /\ Size(nodeStack) = 0) =>
        /\ Size(freeHists) = params.MaxTreeDepth + 1
        /\ NoDuplicates(freeHists)
        /\ Range(freeHists) = ArenaOffsets

\* a finished build that split at least twice
C3_Witness == pc = "done" /\ Size(nodes) >= 5 /\ Size(freeHists) = params.MaxTreeDepth + 1

RECURSIVE ReachableFrom(_)
ReachableFrom(n) ==
    IF At(nodes, n).Left = NotFound THEN {n}
    ELSE {n} \cup ReachableFrom(At(nodes, n).Left) \cup ReachableFrom(At(nodes, n).Right)
\* the leaf / not yet split nodes of the current tree
Leaves == { n \in ReachableFrom(0) : At(nodes, n).Left = NotFound }
Cells(n) == At(nodes, n).VectorSetPtr .. (At(nodes, n).VectorSetPtr + At(nodes, n).VectorSetSize - 1)
RECURSIVE SumOfSizes(_)
SumOfSizes(S) == IF S = {} THEN 0
                 ELSE LET x == CHOOSE y \in S : TRUE
                      IN  At(nodes, x).VectorSetSize + SumOfSizes(S \ {x})

\* C4: between kernels vectorSet is a permutation of 0..n-1 and the ranges of the
\* leaf / unsplit nodes are pairwise disjoint and cover [0, n).
C4_VectorSetPartition ==
    InBuild =>
        LET n == Size(problem.vectorData)
        IN  /\ Size(vectorSet) = n
            /\ Range(vectorSet) = 0..(n - 1)
            /\ \A x, y \in Leaves : x # y => Cells(x) \cap Cells(y) = {}
            /\ UNION { Cells(x) : x \in Leaves } = 0..(n - 1)
            /\ \A x \in Leaves : At(nodes, x).VectorSetSize > 0
            /\ SumOfSizes(Leaves) = n

\* two splits have reordered the vector set
C4_Witness ==
    /\ InBuild
    /\ Cardinality(Leaves) >= 3
    /\ vectorSet # initVectorSet(Size(vectorSet))

\* C5: no node lies deeper than MaxTreeDepth, no node at MaxTreeDepth is split, and a
\* finite MaxNodesCount bounds the number of nodes created.
C5_DepthAndNodeLimits ==
    InBuild =>
        /\ \A n \in NodeIds : At(nodes, n).Level <= params.MaxTreeDepth
        /\ \A n \in NodeIds : At(nodes, n).Level >= params.MaxTreeDepth =>
               (At(nodes, n).Left = NotFound /\ At(nodes, n).Right = NotFound
                /\ At(nodes, n).SplitFeatureId = NotFound)
        /\ params.MaxNodesCount # NotFound => Size(nodes) <= params.MaxNodesCount

\* both limits are met with equality
C5_Witness ==
    /\ pc = "done"
    /\ params.MaxNodesCount # NotFound
    /\ Size(nodes) = params.MaxNodesCount
    /\ Size(nodes) >= 5
    /\ \E n \in NodeIds : At(nodes, n).Level = params.MaxTreeDepth

\* the statistics accumulated over the rows of a node
RECURSIVE RowStatistics(_, _)
RowStatistics(n, i) ==
    IF i >= At(nodes, n).VectorSetSize THEN ZeroStat
    ELSE StatAddVector(RowStatistics(n, i + 1), At(vectorSet, At(nodes, n).VectorSetPtr + i))

\* C6: the statistics of a split node are exactly the sum of its children's, one
\* child's being accumulated over its rows and the other's obtained by subtraction;
\* both are the statistics of the child's rows.
C6_StatisticsAdditive ==
    InBuild =>
        \A n \in NodeIds : At(nodes, n).Left # NotFound =>
            LET l == At(nodes, n).Left
                r == At(nodes, n).Right
            IN  /\ At(nodes, n).Statistics
                      = StatAdd(At(nodes, l).Statistics, At(nodes, r).Statistics)
                /\ At(nodes, l).Statistics = RowStatistics(l, 0)
                /\ At(nodes, r).Statistics = RowStatistics(r, 0)

\* a split whose children have different, non-zero gradient sums
C6_Witness ==
    /\ InBuild
    /\ \E n \in NodeIds :
          /\ At(nodes, n).Left # NotFound
          /\ At(nodes, At(nodes, n).Left).Statistics.g # 0
          /\ At(nodes, At(nodes, n).Right).Statistics.g # 0
          /\ At(nodes, At(nodes, n).Left).VectorSetSize # At(nodes, At(nodes, n).Right).VectorSetSize

HistOf(hs, ptr) == [i \in 0..(histSize - 1) |-> At(hs, ptr + i)]
\* the histogram buildHist produces when run on node n in n's own slot
DirectHist(n) == HistOf(buildHist(B, At(nodes, n)).b.histStats, At(nodes, n).HistPtr)
\* the children waiting on the stack whose histogram was derived by subHist
DerivedOnStack ==
    { n \in Range(nodeStack) :
        HasParent(n) /\ At(nodes, ParentOf(n)).HistPtr = At(nodes, n).HistPtr }

\* C7: the histogram subHist leaves in the parent's slot equals, bin by bin, the one
\* buildHist produces on the rows of the child that took the slot over.
C7_SubtractionIdentity ==
    pc = "loop" =>
        \A n \in DerivedOnStack : HistOf(histStats, At(nodes, n).HistPtr) = DirectHist(n)

\* a derived histogram with a non-zero null bin and a non-zero other bin
C7_Witness ==
    /\ pc = "loop"
    /\ \E n \in DerivedOnStack :
          LET h == HistOf(histStats, At(nodes, n).HistPtr)
          IN  /\ \E i \in DOMAIN h : h[i].h # 0 /\ i = At(idPos, At(problem.featureNullValueId, At(problem.usedFeatures, 0)))
              /\ \E i, j \in DOMAIN h : i # j /\ h[i].g # 0 /\ h[j].g # 0

\* the nodes Build produces for the same inputs and parameters with ThreadCount = 1
SingleThreadNodes ==
    pruneTree(expandAll(startBuild(NewBuilder([params EXCEPT !.ThreadCount = 1])))).nodes

\* C8: Build with ThreadCount = k produces the node array (structure, split bin ids,
\* statistics) that Build with ThreadCount = 1 produces.
C8_ThreadCountInvariance == (pc = "done" /\ builds = 1) => nodes = SingleThreadNodes

\* a tree of several splits built by two threads, the root through the strided
\* parallel path of buildHist and the children through the sequential path
C8_Witness ==
    /\ pc = "done"
    /\ params.ThreadCount >= 2
    /\ Size(vectorSet) > OmpFactor * params.ThreadCount
    /\ Size(nodes) >= 5
    /\ Size(problem.usedFeatures) >= 2


(***************************************************************************)
(* C9  For fixed inputs and a fixed ThreadCount, whatever the order in     *)
(* which the workers of the parallel regions of buildHist, evaluateSplit   *)
(* and applySplit take their steps, Build ends with the same tree: the     *)
(* node array (structure, split bin ids, statistics) equals the one the    *)
(* kernels produce when each runs as one step on a fresh builder. The      *)
(* same holds for a second Build on the same builder.                      *)
(***************************************************************************)
ReferenceNodes == pruneTree(expandAll(startBuild(NewBuilder(params)))).nodes

C9_InterleavingDeterminism ==
    pc = "done" => nodes = ReferenceNodes

\* a second Build on the same builder has finished, with two or more workers, after the
\* root's histogram was built on the parallel path and the root was split
C9_Witness ==
    /\ pc = "done"
    /\ builds = 2
    /\ params.ThreadCount > 1
    /\ Size(vectorSet) > OmpFactor * params.ThreadCount
    /\ Size(nodes) >= 3
    /\ At(nodes, 0).SplitFeatureId # NotFound

(***************************************************************************)
(* C10  Inside every parallel region no memory cell is written by one      *)
(* worker and read or written by another worker.                           *)
(***************************************************************************)
C10_NoDataRace ==
    \A t \in Workers, u \in Workers :
        (t # u /\ omp.n > 0) =>
            At(omp.writes, t) \cap (At(omp.reads, u) \cup At(omp.writes, u)) = {}

\* in the first region of buildHist two workers have each written scratch bins and
\* their own total
C10_Witness ==
    /\ pc = "acc"
    /\ params.ThreadCount > 1
    /\ \A t \in Workers :
          /\ << "results", t >> \in At(omp.writes, t)
          /\ \E c \in At(omp.writes, t) : c[1] = "tempHistStats"

(***************************************************************************)
(* Pruning.                                                                *)
(***************************************************************************)
\* the expansion loop has ended and the prune pass has not yet run
Expanded == pc = "loop" /\ Size(nodeStack) = 0
\* the thresholds compared: PruneCriterionValue ranges over 0..MaxPruneValue
PruneValues == 0..MaxPruneValue
\* the node array after the prune pass of Build run with threshold p on the current tree
PrunedWith(p) == pruneTree([B EXCEPT !.params.PruneCriterionValue = p]).nodes
\* the number of nodes reachable from node n in the node array ns
RECURSIVE TreeSize(_, _)
TreeSize(ns, n) ==
    IF At(ns, n).Left = NotFound THEN 1
    ELSE 1 + TreeSize(ns, At(ns, n).Left) + TreeSize(ns, At(ns, n).Right)

\* C11: for one expanded tree and thresholds p1 <= p2, pruning with p2 leaves no more
\* nodes reachable from the root than pruning with p1 (0: the pass is skipped).
C11_PruneMonotone ==
    Expanded =>
        \A p1 \in PruneValues, p2 \in PruneValues :
            p1 <= p2 => TreeSize(PrunedWith(p2), 0) <= TreeSize(PrunedWith(p1), 0)

\* an expanded tree that two positive thresholds prune to different sizes, the smaller
\* threshold already removing nodes and the larger one leaving a split
C11_Witness ==
    /\ Expanded
    /\ \E p1 \in PruneValues, p2 \in PruneValues :
          /\ 0 < p1 /\ p1 < p2
          /\ TreeSize(PrunedWith(p2), 0) < TreeSize(PrunedWith(p1), 0)
          /\ TreeSize(PrunedWith(p1), 0) < TreeSize(nodes, 0)
          /\ TreeSize(PrunedWith(p2), 0) > 1

\* the largest criterion difference of a split node of the current tree
RECURSIVE MaxDifference(_)
MaxDifference(S) ==
    IF S = {} THEN 0
    ELSE LET n == CHOOSE x \in S : TRUE
         IN  Max(criterionDifference(B, n), MaxDifference(S \ {n}))
\* a threshold larger than every criterion difference of the current tree
InfinitePrune == (MaxDifference({ n \in NodeIds : IsSplit(n) }) \div CritScale) + 1

\* C12: pruned with a threshold larger than every criterion difference of the expanded
\* tree, the tree is a single leaf: the root has no children and no split bin id.
C12_PruneAllToSingleLeaf ==
    Expanded =>
        LET root == At(PrunedWith(InfinitePrune), 0)
        IN  root.Left = NotFound /\ root.Right = NotFound /\ root.SplitFeatureId = NotFound

\* an expanded tree of three levels that the build's own threshold leaves split
C12_Witness ==
    /\ Expanded
    /\ Size(nodes) >= 7
    /\ \E n \in NodeIds : At(nodes, n).Level >= 3
    /\ At(pruneTree(B).nodes, 0).Left # NotFound
    /\ At(PrunedWith(InfinitePrune), 0).Left = NotFound


(***************************************************************************)
(* evaluateSplit and applySplit.                                           *)
(***************************************************************************)
\* the training indices stored in the range of node n
Rows(n) == { At(vectorSet, c) : c \in Cells(n) }

\* C13: the assertions leftIndex > 0 and vectorCount - leftIndex > 0 of applySplit
\* never fail: every split puts at least one row on each side.
C13_SplitSidesNonEmpty ==
    /\ failed # "applySplit"
    /\ InBuild =>
          \A n \in NodeIds : IsSplit(n) =>
              /\ At(nodes, At(nodes, n).Left).VectorSetSize > 0
              /\ At(nodes, At(nodes, n).Right).VectorSetSize > 0

\* a split under MinSubsetHessian = 2 whose smaller side has exactly two rows, a row
\* of the left side listing no bin of the split feature
C13_Witness ==
    /\ pc = "loop"
    /\ params.MinSubsetHessian = 2
    /\ \E n \in NodeIds :
          /\ IsSplit(n)
          /\ 2 \in { At(nodes, At(nodes, n).Left).VectorSetSize,
                     At(nodes, At(nodes, n).Right).VectorSetSize }
          /\ At(nodes, n).VectorSetSize > 4
          /\ \E r \in Rows(At(nodes, n).Left) :
                \A j \in 1..Len(At(problem.vectorData, r)) :
                    At(problem.featureIndexes, At(problem.vectorData, r)[j])
                        # At(problem.featureIndexes, At(nodes, n).SplitFeatureId)

\* the bin ids of the used features
UsedBins ==
    UNION { At(problem.featurePos, f)..(At(problem.featurePos, f + 1) - 1) :
              f \in Range(problem.usedFeatures) }
\* the sum of the bins from..to of the histogram at offset ptr
RECURSIVE SumBins(_, _, _)
SumBins(ptr, from, to) ==
    IF from > to THEN ZeroStat
    ELSE StatAdd(SumBins(ptr, from, to - 1), At(histStats, ptr + At(idPos, to)))
\* the candidate "split node n at bin j": its two sides, whether the guards admit it,
\* and its criterion
Candidate(n, j) ==
    LET node == At(nodes, n)
        left == SumBins(node.HistPtr, At(problem.featurePos, At(problem.featureIndexes, j)), j)
        right == StatSub(node.Statistics, left)
        c == CalcSplitCriterion(left, right, node.Statistics, params)
    IN  [ok |-> c.ok, criterion |-> c.criterion, left |-> left, right |-> right]
Admitted(n) == { j \in UsedBins : Candidate(n, j).ok }
BestBins(n) ==
    { j \in Admitted(n) :
        \A k \in Admitted(n) : Candidate(n, k).criterion <= Candidate(n, j).criterion }
SmallestOf(S) == CHOOSE j \in S : \A k \in S : j <= k
\* the bin id the claim prescribes for node n
ExpectedSplit(n) ==
    IF \E j \in BestBins(n) :
           Candidate(n, j).criterion
               > CalcCriterion(At(nodes, n).Statistics, params.L1RegFactor, params.L2RegFactor)
    THEN SmallestOf(BestBins(n))
    ELSE NotFound
\* evaluateSplit on the node about to be popped, as a builder with t threads runs it
EvaluateWith(t) ==
    evaluateSplit([popNode(B) EXCEPT !.params.ThreadCount = t,
                                     !.leftCandidates = << >>,
                                     !.rightCandidates = << >>], Last(nodeStack))
AgreesWithExpected(e, n) ==
    /\ e.result = ExpectedSplit(n)
    /\ IF e.result = NotFound
       THEN /\ At(e.b.nodes, n).LeftStatistics = At(nodes, n).LeftStatistics
            /\ At(e.b.nodes, n).RightStatistics = At(nodes, n).RightStatistics
       ELSE /\ At(e.b.nodes, n).LeftStatistics = Candidate(n, e.result).left
            /\ At(e.b.nodes, n).RightStatistics = Candidate(n, e.result).right

\* C14: for the node the loop pops next, within the depth and node-count limits,
\* evaluateSplit returns the smallest bin id among the admitted candidates of maximal
\* criterion when that criterion exceeds the node's own, NotFound otherwise, and
\* records the statistics of the two sides of that candidate; for every ThreadCount.
C14_EvaluateSplitChoosesSmallestBest ==
    (pc = "loop" /\ Size(nodeStack) > 0
        /\ ~limitReached(popNode(B), At(nodes, Last(nodeStack)))) =>
        /\ AgreesWithExpected(evaluateSplit(popNode(B), Last(nodeStack)), Last(nodeStack))
        /\ \A t \in 1..MaxThreads : AgreesWithExpected(EvaluateWith(t), Last(nodeStack))

\* two threads and three used features: the best candidates are bins of the second and
\* of the third feature, which different threads scan, and beat the node's own criterion
C14_Witness ==
    /\ pc = "loop" /\ Size(nodeStack) > 0
    /\ ~limitReached(popNode(B), At(nodes, Last(nodeStack)))
    /\ params.ThreadCount = 2
    /\ Size(problem.usedFeatures) = 3
    /\ ExpectedSplit(Last(nodeStack)) # NotFound
    /\ { At(problem.featureIndexes, j) : j \in BestBins(Last(nodeStack)) }
           = { At(problem.usedFeatures, 1), At(problem.usedFeatures, 2) }

\* the bin id of feature f that counts for row r: the bin of f the row lists, or the
\* null bin of f
EffectiveBin(r, f) ==
    LET data == At(problem.vectorData, r)
        listed == { data[j] : j \in { k \in 1..Len(data) : At(problem.featureIndexes, data[k]) = f } }
    IN  IF listed = {} THEN At(problem.featureNullValueId, f) ELSE CHOOSE x \in listed : TRUE

\* C15: the left child of a split node holds exactly the node's rows whose effective
\* bin id of the split feature is <= the split bin id, the right child the other rows;
\* the two ranges are adjacent inside the parent's range and no stored index is negative.
C15_ApplySplitPartition ==
    InBuild =>
        /\ \A c \in 1..Len(vectorSet) : vectorSet[c] >= 0
        /\ \A n \in NodeIds : IsSplit(n) =>
              LET node == At(nodes, n)
                  l == At(nodes, node.Left)
                  r == At(nodes, node.Right)
                  f == At(problem.featureIndexes, node.SplitFeatureId)
              IN  /\ Rows(node.Left) = { x \in Rows(n) : EffectiveBin(x, f) <= node.SplitFeatureId }
                  /\ Rows(node.Right) = { x \in Rows(n) : EffectiveBin(x, f) > node.SplitFeatureId }
                  /\ l.VectorSetPtr = node.VectorSetPtr
                  /\ r.VectorSetPtr = node.VectorSetPtr + l.VectorSetSize
                  /\ l.VectorSetSize + r.VectorSetSize = node.VectorSetSize

\* a split at the null bin of a feature: the left side holds rows that list the null
\* bin, rows that list a smaller bin and rows that list no bin of the feature
C15_Witness ==
    /\ pc = "loop"
    /\ \E n \in NodeIds :
          /\ IsSplit(n)
          /\ LET node == At(nodes, n)
                 f == At(problem.featureIndexes, node.SplitFeatureId)
                 listed(x) == { j \in 1..Len(At(problem.vectorData, x)) :
                                  At(problem.featureIndexes, At(problem.vectorData, x)[j]) = f }
             IN  /\ node.SplitFeatureId = At(problem.featureNullValueId, f)
                 /\ \E x \in Rows(node.Left) : listed(x) = {}
                 /\ \E x \in Rows(node.Left) :
                       listed(x) # {} /\ EffectiveBin(x, f) = node.SplitFeatureId
                 /\ \E x \in Rows(node.Left) :
                       listed(x) # {} /\ EffectiveBin(x, f) < node.SplitFeatureId
                 /\ Rows(node.Right) # {}


\* the nodes of the tree that have two leaf children and meet the merge condition
Mergeable ==
    { n \in ReachableFrom(0) :
        /\ IsSplit(n)
        /\ ~IsSplit(At(nodes, n).Left)
        /\ ~IsSplit(At(nodes, n).Right)
        /\ shouldMerge(B, n) }

\* C16: after the prune pass no node of the tree with two leaf children and a
\* criterion difference below PruneCriterionValue remains split.
C16_NoMergeableNodeRemains ==
    (pc = "done" /\ params.PruneCriterionValue # 0) => Mergeable = {}


(***************************************************************************)
(* The histogram arena.                                                    *)
(***************************************************************************)
BothChildrenHoldHistograms(n) ==
    /\ IsSplit(n)
    /\ At(nodes, At(nodes, n).Left).HistPtr # NotFound
    /\ At(nodes, At(nodes, n).Right).HistPtr # NotFound

\* C17 as claimed: once both children of a split node hold histograms, the split node
\* holds none any more or its offset is back in the free list.
C17_ParentSlotReleased ==
    pc = "loop" =>
        \A n \in NodeIds : BothChildrenHoldHistograms(n) =>
            \/ At(nodes, n).HistPtr = NotFound
            \/ At(nodes, n).HistPtr \in Range(freeHists)

\* the child of split node n whose histogram is derived by subtraction: the one that is
\* not smaller than its sibling, the left one on a tie
DerivedChild(n) ==
    IF At(nodes, At(nodes, n).Left).VectorSetSize < At(nodes, At(nodes, n).Right).VectorSetSize
    THEN At(nodes, n).Right ELSE At(nodes, n).Left
DirectChild(n) == IF DerivedChild(n) = At(nodes, n).Left THEN At(nodes, n).Right
                  ELSE At(nodes, n).Left

\* C17 amended: once both children of a split node hold histograms, the split node's
\* slot has been handed over to the child derived by subtraction, which names the same
\* offset, while the other child holds another slot; the offset is not in the free list
\* as long as both children await expansion, and the split node's HistPtr is never reset.
C17_ParentSlotHandedOver ==
    pc = "loop" =>
        \A n \in NodeIds : IsSplit(n) =>
            /\ At(nodes, n).HistPtr \in ArenaOffsets
            /\ At(nodes, DerivedChild(n)).HistPtr \in {At(nodes, n).HistPtr, NotFound}
            /\ At(nodes, DirectChild(n)).HistPtr # At(nodes, n).HistPtr
            /\ ({At(nodes, n).Left, At(nodes, n).Right} \subseteq Range(nodeStack)) =>
                  /\ At(nodes, DerivedChild(n)).HistPtr = At(nodes, n).HistPtr
                  /\ At(nodes, DirectChild(n)).HistPtr \in ArenaOffsets
                  /\ At(nodes, n).HistPtr \notin Range(freeHists)

\* a split below the root has just attached histograms to both children, of different
\* sizes, while other nodes still wait on the stack
C17_Witness ==
    /\ pc = "loop"
    /\ \E n \in NodeIds :
          /\ IsSplit(n)
          /\ At(nodes, n).Level >= 1
          /\ {At(nodes, n).Left, At(nodes, n).Right} \subseteq Range(nodeStack)
          /\ Size(nodeStack) >= 3
          /\ At(nodes, At(nodes, n).Left).VectorSetSize
                 # At(nodes, At(nodes, n).Right).VectorSetSize


\* C18: from the first initHistData on, during a Build and across Build calls on the
\* same builder, histStats has exactly histSize * (MaxTreeDepth + 1) elements.
C18_ArenaNeverResizes ==
    pc # "idle" => Size(histStats) = histSize * (params.MaxTreeDepth + 1)


(***************************************************************************)
(* The null bins of a histogram.                                           *)
(***************************************************************************)
\* the statistics accumulated over the set S of training indices
RECURSIVE StatOfRows(_)
StatOfRows(S) ==
    IF S = {} THEN ZeroStat
    ELSE LET x == CHOOSE y \in S : TRUE IN StatAddVector(StatOfRows(S \ {x}), x)
BinsOfRow(x) == Range(At(problem.vectorData, x))
\* the rows of node n that list the null bin of feature f
ExplicitNullRows(n, f) ==
    { x \in Rows(n) : At(problem.featureNullValueId, f) \in BinsOfRow(x) }
\* the rows of node n that list no bin of feature f
AbsentRows(n, f) ==
    { x \in Rows(n) : \A j \in BinsOfRow(x) : At(problem.featureIndexes, j) # f }
NullBin(n, f) ==
    At(histStats, At(nodes, n).HistPtr + At(idPos, At(problem.featureNullValueId, f)))

\* C19 as claimed: when rows of the node list the null bin of a used feature, their
\* contribution is in the null bin of the node's histogram twice.
C19_ExplicitNullCountedTwice ==
    pc = "loop" =>
        \A n \in Range(nodeStack), f \in Range(problem.usedFeatures) :
            ExplicitNullRows(n, f) # {} =>
                NullBin(n, f) = StatAdd(StatOfRows(AbsentRows(n, f)),
                                        StatAdd(StatOfRows(ExplicitNullRows(n, f)),
                                                StatOfRows(ExplicitNullRows(n, f))))

\* C19 amended: the null bin of a used feature holds the contribution of the rows that
\* list no bin of the feature and of the rows that list the null bin, each row once.
C19_ExplicitNullCountedOnce ==
    pc = "loop" =>
        \A n \in Range(nodeStack), f \in Range(problem.usedFeatures) :
            NullBin(n, f) = StatOfRows(AbsentRows(n, f) \cup ExplicitNullRows(n, f))

\* a node awaiting expansion, its histogram built by buildHist itself, with rows that
\* list the null bin of a used feature and rows that list no bin of that feature
C19_Witness ==
    /\ pc = "loop"
    /\ \E n \in Range(nodeStack) \ DerivedOnStack, f \in Range(problem.usedFeatures) :
          /\ ExplicitNullRows(n, f) # {}
          /\ AbsentRows(n, f) # {}
          /\ At(nodes, n).VectorSetSize > Cardinality(AbsentRows(n, f) \cup ExplicitNullRows(n, f))

\* C20: for every node that holds a histogram, built by buildHist or derived by
\* subtraction, and every used feature, the bins of the feature sum to the statistics
\* of the node's rows.
C20_FeatureBinsSumToTotal ==
    pc = "loop" =>
        \A n \in Range(nodeStack), f \in Range(problem.usedFeatures) :
            /\ SumBins(At(nodes, n).HistPtr, At(problem.featurePos, f),
                       At(problem.featurePos, f + 1) - 1) = At(nodes, n).Statistics
            /\ At(nodes, n).Statistics = StatOfRows(Rows(n))
            /\ NullBin(n, f) = StatOfRows({ x \in Rows(n) :
                    \A j \in BinsOfRow(x) \ { At(problem.featureNullValueId, f) } :
                        At(problem.featureIndexes, j) # f })

\* two siblings await expansion, one histogram built and one derived, and in both some
\* rows list no bin of a used feature while others do
C20_Witness ==
    /\ pc = "loop"
    /\ \E n \in DerivedOnStack, m \in Range(nodeStack) \ DerivedOnStack,
          f \in Range(problem.usedFeatures) :
          /\ HasParent(m) /\ ParentOf(m) = ParentOf(n)
          /\ AbsentRows(n, f) # {} /\ AbsentRows(n, f) # Rows(n)
          /\ AbsentRows(m, f) # {} /\ AbsentRows(m, f) # Rows(m)

(***************************************************************************)
(* The histogram slots of a split.                                         *)
(***************************************************************************)
\* the step splits the node on top of the stack
SplitStep == pc = "loop" /\ pc' = "loop" /\ Size(nodes') = Size(nodes) + 2

\* C21: a split takes exactly one offset off the free list and puts none back; the
\* offset goes to the child that is not larger than its sibling (the right child when
\* the sizes are equal) and the other child gets the offset the parent held.
C21_SplitAllocatesOneSlot ==
    [][ SplitStep =>
          LET node == Last(nodeStack)
              leftNode == Size(nodes)
              rightNode == Size(nodes) + 1
              built == IF At(nodes', leftNode).VectorSetSize
                           < At(nodes', rightNode).VectorSetSize
                       THEN leftNode ELSE rightNode
              other == IF built = leftNode THEN rightNode ELSE leftNode
          IN  /\ At(nodes', node).Left = leftNode /\ At(nodes', node).Right = rightNode
              /\ freeHists # << >>
              /\ freeHists' = DeleteLast(freeHists)
              /\ At(nodes', built).HistPtr = Last(freeHists)
              /\ At(nodes', other).HistPtr = At(nodes, node).HistPtr
              /\ At(nodes', other).HistPtr # NotFound
              /\ At(nodes', built).VectorSetSize <= At(nodes', other).VectorSetSize ]_vars

\* a node has just been split into children of equal size, below a node that was split
\* into a smaller left and a larger right child
C21_Witness ==
    /\ pc = "loop"
    /\ \E p \in NodeIds, q \in NodeIds :
          /\ IsSplit(p) /\ IsSplit(q)
          /\ Size(nodeStack) >= 2
          /\ At(nodeStack, Size(nodeStack) - 2) = At(nodes, p).Left
          /\ Last(nodeStack) = At(nodes, p).Right
          /\ At(nodes, At(nodes, p).Left).VectorSetSize
                = At(nodes, At(nodes, p).Right).VectorSetSize
          /\ At(nodes, At(nodes, p).Right).HistPtr # At(nodes, p).HistPtr
          /\ At(nodes, At(nodes, q).Left).VectorSetSize
                < At(nodes, At(nodes, q).Right).VectorSetSize

(***************************************************************************)
(* Termination.                                                            *)
(***************************************************************************)
RECURSIVE Pow2(_)
Pow2(n) == IF n = 0 THEN 1 ELSE 2 * Pow2(n - 1)

\* the sweep has read no cell outside the range of the node
SweepReadsInRange ==
    pc \in {"sweep", "swept"} =>
        fr.reads \subseteq fr.vectorPtr..(fr.vectorPtr + fr.vectorCount - 1)

\* no node waits on the stack twice, until pruning every node off the stack has been
\* split or made a leaf, and no more nodes exist than a binary tree of MaxTreeDepth
\* levels below the root has
NodesAccounted ==
    pc \in {"loop", "sweep", "done"} /\ nodes # << >> =>
        /\ Cardinality(Range(nodeStack)) = Size(nodeStack)
        /\ Size(nodes) <= Pow2(params.MaxTreeDepth + 1) - 1
        /\ \A n \in NodeIds \ Range(nodeStack) :
              \/ pc = "done"
              \/ IsSplit(n)
              \/ pc = "sweep" /\ n = fr.node
              \/ At(nodes, n).HistPtr = NotFound /\ At(nodes, n).SplitFeatureId = NotFound

\* a node that has left the stack never returns to it
PoppedOnce ==
    Range(nodeStack') \cap NodeIds \subseteq
        Range(nodeStack) \ (IF pc = "loop" /\ nodeStack # << >> THEN { Last(nodeStack) } ELSE {})

\* C22: Build terminates with the stack empty, every node pushed is popped once and
\* split or made a leaf, at most 2^(MaxTreeDepth+1) - 1 nodes are created, and the sweep
\* of applySplit terminates for every marking without reading outside the node's range.
C22_BuildTerminates ==
    /\ [](SweepReadsInRange /\ NodesAccounted)
    /\ [][PoppedOnce]_vars
    /\ (pc = "idle") ~> (pc = "done" /\ nodeStack = << >>)
    /\ (pc = "sweep") ~> (pc \in {"loop", "swept"})

\* the sweep of a split inside Build has ended after swapping cells and moving both
\* indexes, in a tree that already holds a leaf at the depth limit
C22_Witness ==
    /\ pc = "sweep"
    /\ fr.node # NotFound
    /\ fr.leftIndex > fr.rightIndex
    /\ fr.leftIndex > 1 /\ fr.leftIndex < fr.vectorCount - 1
    /\ \E c \in Cells(fr.node) : At(vectorSet, c) # c
    /\ \E n \in NodeIds : At(nodes, n).Level = params.MaxTreeDepth
                          /\ At(nodes, n).HistPtr = NotFound

(***************************************************************************)
(* The histograms of the nodes that wait on the stack.                     *)
(***************************************************************************)
\* the histogram of the rows of node n, from the rows themselves: slot idPos[j] holds
\* the rows that list bin j and, for the null bin of a feature, the rows that list no
\* bin of the feature
ExpectedHist(n) ==
    [i \in 0..(histSize - 1) |->
        LET j == CHOOSE k \in UsedBins : At(idPos, k) = i
            f == At(problem.featureIndexes, j)
        IN  StatOfRows({ x \in Rows(n) : j \in BinsOfRow(x) }
                       \cup (IF j = At(problem.featureNullValueId, f)
                             THEN AbsentRows(n, f) ELSE {}))]

\* the nodes below node n
RECURSIVE Descendants(_)
Descendants(n) ==
    IF ~IsSplit(n) THEN {}
    ELSE { At(nodes, n).Left, At(nodes, n).Right }
            \cup Descendants(At(nodes, n).Left) \cup Descendants(At(nodes, n).Right)

\* C23: every node that waits on the stack, the one about to be popped included, holds
\* an arena offset that is not in the free list and that no other waiting node holds,
\* and the block at that offset is the histogram of exactly the node's rows.
C23_WaitingHistogramsIntact ==
    pc = "loop" =>
        \A n \in Range(nodeStack) :
            /\ At(nodes, n).HistPtr \in ArenaOffsets
            /\ At(nodes, n).HistPtr \notin Range(freeHists)
            /\ \A m \in Range(nodeStack) \ {n} : At(nodes, m).HistPtr # At(nodes, n).HistPtr
            /\ HistOf(histStats, At(nodes, n).HistPtr) = ExpectedHist(n)

\* the node about to be popped has waited while its sibling was split and the whole
\* subtree of the sibling was expanded, its histograms built, derived and released
C23_Witness ==
    /\ pc = "loop"
    /\ nodeStack # << >>
    /\ LET n == Last(nodeStack)
       IN  /\ HasParent(n)
           /\ n = At(nodes, ParentOf(n)).Left
           /\ LET s == At(nodes, ParentOf(n)).Right
              IN  /\ IsSplit(s)
                  /\ Descendants(s) \cap Range(nodeStack) = {}
                  /\ \E d \in Descendants(s) : IsSplit(d)
                  /\ At(nodes, n).VectorSetSize > 1

(***************************************************************************)
(* The statistics saved by evaluateSplit and the rows placed by applySplit. *)
(***************************************************************************)
\* every row lists at most one bin id of each used feature
OneBinPerFeature ==
    \A x \in 1..Len(problem.vectorData), f \in Range(problem.usedFeatures) :
        Cardinality({ j \in 1..Len(problem.vectorData[x]) :
                        At(problem.featureIndexes, problem.vectorData[x][j]) = f }) <= 1

\* the sum of the slots of the bin ids from..to of the histogram h
RECURSIVE PrefixOf(_, _, _)
PrefixOf(h, from, to) ==
    IF from > to THEN ZeroStat
    ELSE StatAdd(PrefixOf(h, from, to - 1), h[At(idPos, to)])

\* C24: for every split node, the LeftStatistics saved by evaluateSplit are the sum of
\* the histogram of the node's rows over the bins of the split feature up to the split
\* bin id and equal the aggregate statistics of the rows applySplit placed in the left
\* child, and RightStatistics equal those of the rows placed in the right child,
\* provided every row lists at most one bin id per used feature.
C24_SavedStatisticsMatchRows ==
    (InBuild /\ OneBinPerFeature) =>
        \A n \in NodeIds : IsSplit(n) =>
            LET node == At(nodes, n)
                f == At(problem.featureIndexes, node.SplitFeatureId)
            IN  /\ node.LeftStatistics =
                       PrefixOf(ExpectedHist(n), At(problem.featurePos, f), node.SplitFeatureId)
                /\ node.LeftStatistics = StatOfRows(Rows(node.Left))
                /\ node.RightStatistics = StatOfRows(Rows(node.Right))

\* a node below the root, the larger child of its parent (its histogram was derived by
\* subtraction), split at or above the null bin of a feature that some of its rows do
\* not list: those rows went left with the folded-in null bin, and the two sides differ
C24_Witness ==
    /\ pc = "loop"
    /\ OneBinPerFeature
    /\ \E n \in NodeIds :
          /\ IsSplit(n)
          /\ HasParent(n)
          /\ LET p == At(nodes, ParentOf(n))
                 node == At(nodes, n)
                 f == At(problem.featureIndexes, node.SplitFeatureId)
             IN  /\ \E s \in {p.Left, p.Right} \ {n} :
                        At(nodes, s).VectorSetSize < node.VectorSetSize
                 /\ AbsentRows(n, f) # {}
                 /\ AbsentRows(n, f) \subseteq Rows(node.Left)
                 /\ Rows(node.Left) \ AbsentRows(n, f) # {}
                 /\ node.LeftStatistics # node.RightStatistics

(***************************************************************************)
(* The node array that prune and buildTree walk.                           *)
(***************************************************************************)
\* buildTree( node ): the nodes it turns into leaves (SplitFeatureId = NotFound) and
\* whether every index it follows is an index of the node array
RECURSIVE buildTree(_, _)
buildTree(ns, node) ==
    IF node \notin 0..(Size(ns) - 1) THEN [valid |-> FALSE, leaves |-> {}]
    ELSE IF At(ns, node).SplitFeatureId = NotFound THEN [valid |-> TRUE, leaves |-> {node}]
    ELSE LET left == buildTree(ns, At(ns, node).Left)
             right == buildTree(ns, At(ns, node).Right)
         IN  [valid |-> left.valid /\ right.valid, leaves |-> left.leaves \cup right.leaves]

\* the nodes at which prune( node ) finds "no child nodes" (Left = NotFound)
RECURSIVE pruneLeaves(_, _)
pruneLeaves(ns, node) ==
    IF At(ns, node).Left = NotFound THEN {node}
    ELSE pruneLeaves(ns, At(ns, node).Left) \cup pruneLeaves(ns, At(ns, node).Right)

\* C25: when the expansion loop has finished, and again after pruning, every node has
\* Left, Right and SplitFeatureId equal to NotFound together or not at all, every child
\* index is the index of an existing node greater than the node's own, and buildTree
\* from the root follows existing nodes only and ends at the nodes prune takes for leaves.
C25_LeafTestsAgree ==
    (Expanded \/ pc = "done") =>
        /\ \A n \in NodeIds :
              LET node == At(nodes, n)
              IN  /\ (node.Left = NotFound) <=> (node.Right = NotFound)
                  /\ (node.Right = NotFound) <=> (node.SplitFeatureId = NotFound)
                  /\ node.Left # NotFound => (node.Left \in NodeIds /\ node.Left > n)
                  /\ node.Right # NotFound => (node.Right \in NodeIds /\ node.Right > n)
        /\ buildTree(nodes, 0).valid
        /\ buildTree(nodes, 0).leaves = pruneLeaves(nodes, 0)

\* after a prune pass that merged a node (its two children are still in the array,
\* below a node that is a leaf now) and left the root split
C25_Witness ==
    /\ pc = "done"
    /\ IsSplit(0)
    /\ \E n \in NodeIds, m \in NodeIds :
          /\ m > n
          /\ ~IsSplit(n)
          /\ At(nodes, n).SplitFeatureId = NotFound
          /\ At(nodes, m).Level = At(nodes, n).Level + 1
          /\ At(nodes, m).VectorSetPtr = At(nodes, n).VectorSetPtr
          /\ At(nodes, m).VectorSetSize < At(nodes, n).VectorSetSize
    /\ Cardinality(buildTree(nodes, 0).leaves) >= 3

====
